---- MODULE Spec2Model ----
(***************************************************************************)
(* Verification model of the security core of the service: the OTP ledger  *)
(* (otp.service.ts), the IP block registry (ip-blocker.service.ts) and the *)
(* login-eligibility aggregator (DualVerificationService in                *)
(* fraud-detection.service.ts).                                            *)
(*                                                                         *)
(* Time is counted in seconds.  JavaScript `undefined` is the value        *)
(* Undefined.  Database ids (uuid) are the naturals 1, 2, ... handed out   *)
(* in order and never reused.                                              *)
(***************************************************************************)
EXTENDS Integers, Sequences, FiniteSets, TLC

\* ------------------------------------------------------------------ bounds
\* Number of OTP records ever issued in one behaviour.
MaxOtps == 2
\* The clock advances in steps of TickSeconds, at most MaxTicks of them.
TickSeconds == 60
MaxTicks == 2
\* Concurrent verifyOtp: number of overlapping callers and of rows they target.
NumCallers == 2
MaxConcOtps == 1
\* Login eligibility: rows the fraud log may hold, and the number of times one
\* device fingerprint is counted.
MaxFraudLog == 1
MaxDeviceAttempts == 2
\* IP block registry: seconds sampled on each side of an hour boundary.
Slack == 1

\* --------------------------------------------------------------- constants
\* otp.service.ts:33   expiresAt = Date.now() + 60 * 1000
OtpTtlSeconds == 60
\* otp.service.ts:45   maxAttempts: 3
DefaultMaxAttempts == 3
\* otp.service.ts:209  Date.now() - 24 * 60 * 60 * 1000
RetentionSeconds == 24 * 60 * 60

Undefined == "undefined"

\* otp.entity.ts: enum OtpPurpose (the two purposes the controller issues)
EMAIL_VERIFICATION == "email_verification"
PHONE_VERIFICATION == "phone_verification"
Purposes == {EMAIL_VERIFICATION, PHONE_VERIFICATION}

\* otp.entity.ts: enum OtpStatus
PENDING == "pending"
VERIFIED == "verified"
EXPIRED == "expired"
FAILED == "failed"

\* Inputs of the model: the identities and codes callers present.
\* generateOtp is called with (purpose, email?, phone?, userId?): the two shapes
\* the controller uses (security.controller.ts:116 and :177).
IssueRequests ==
    { [purpose |-> EMAIL_VERIFICATION, email |-> "a@b.com", phone |-> Undefined,
       userId |-> Undefined],
      [purpose |-> PHONE_VERIFICATION, email |-> Undefined, phone |-> "+923001234567",
       userId |-> Undefined] }
\* generateRandomCode draws the issued code; callers may supply any code.
IssuedCodes == {"111111"}
Codes == {"111111", "222222"}
OtpIds == 1..MaxOtps
\* The purpose argument callers pass to verifyOtp (it is only logged, line 117):
\* it matches the e-mail rows and differs from the phone rows.
VerifyPurposes == {EMAIL_VERIFICATION}

\* Outcomes of verifyOtp: the messages of the exceptions it throws, or success.
OutNotFound == "OTP not found"
OutExpired == "OTP has expired"
OutAlreadyUsed == "OTP already used"
OutMaxAttempts == "Maximum OTP attempts exceeded"
OutInvalidCode == "Invalid OTP code"
OutVerified == "verified=true"

VARIABLES
    otps,             \* the otps table: id -> Otp row
    nextId,           \* the next primary key the table hands out
    now,              \* the clock (Date.now(), in seconds)
    res,              \* the last service call and what it returned
    verifiedReturns,  \* history: id -> number of verifyOtp calls that returned verified=true
    pc,               \* concurrent verifyOtp: each caller's position
    loc,              \* concurrent verifyOtp: each caller's arguments and loaded entity
    users,            \* the users table: email -> User row
    blockedIps,       \* IpBlockerService.blockedIps: ip -> BlockedIpRecord
    deviceFingerprints, \* DualVerificationService.deviceFingerprints
    loginAttempts,    \* DualVerificationService.loginAttempts: key -> records
    fraudLog,         \* the fraud_logs table, in insertion order
    verdict,          \* the last checkLoginEligibility call and its VerificationStatus
    deniedIps,        \* history: ips a lookup answered "not blocked" for, since their last blockIp
    bruteBlocks       \* history: ip -> the brute-force block placed on it, until unblockIp

otpVars == <<otps, nextId, res, verifiedReturns>>
concVars == <<pc, loc>>
histVars == <<deniedIps, bruteBlocks>>
eligVars == <<users, blockedIps, deviceFingerprints, loginAttempts, fraudLog, verdict,
              histVars>>
vars == <<otps, nextId, now, res, verifiedReturns, pc, loc,
          users, blockedIps, deviceFingerprints, loginAttempts, fraudLog, verdict,
          deniedIps, bruteBlocks>>

\* ------------------------------------------------------------ OtpService
\* WHERE clause of invalidatePreviousOtps: purpose and status always, and each
\* of email, phone, userId only when the argument is truthy.
InvalidateMatches(otp, purpose, email, phone, userId) ==
    /\ otp.purpose = purpose
    /\ otp.status = PENDING
    /\ (email # Undefined => otp.email = email)
    /\ (phone # Undefined => otp.phone = phone)
    /\ (userId # Undefined => otp.userId = userId)

\* A plausible slip: the UPDATE is built but never executed.
InvalidateNothing(store, purpose, email, phone, userId) ==
    store

invalidatePreviousOtps(store, purpose, email, phone, userId) ==
    [i \in DOMAIN store |->
        IF InvalidateMatches(store[i], purpose, email, phone, userId)
        THEN [store[i] EXCEPT !.status = EXPIRED]
        ELSE store[i]]

\* The entity generateOtp creates (otpRepository.create).
NewOtp(purpose, email, phone, userId, code, t) ==
    [ purpose |-> purpose, email |-> email, phone |-> phone, userId |-> userId,
      code |-> code, status |-> PENDING, attempts |-> 0,
      maxAttempts |-> DefaultMaxAttempts,
      expiresAt |-> t + OtpTtlSeconds ]

\* generateOtp: invalidate, then save the new row under a fresh id.
generateOtp(store, id, purpose, email, phone, userId, code, t) ==
    LET inv == invalidatePreviousOtps(store, purpose, email, phone, userId)
    IN  [i \in DOMAIN inv \cup {id} |->
            IF i = id THEN NewOtp(purpose, email, phone, userId, code, t)
            ELSE inv[i]]

\* Plausible slips in verifyOtp's checks, used to see that the properties below
\* depend on them.
\* ... the "already used" check is missing:
VerifyWithoutUsedCheck(otp, code, t) ==
    IF t > otp.expiresAt
    THEN [otp |-> [otp EXCEPT !.status = EXPIRED], save |-> TRUE, outcome |-> OutExpired]
    ELSE IF otp.attempts >= otp.maxAttempts
    THEN [otp |-> [otp EXCEPT !.status = FAILED], save |-> TRUE, outcome |-> OutMaxAttempts]
    ELSE IF otp.code # code
    THEN [otp |-> [otp EXCEPT !.attempts = @ + 1], save |-> TRUE, outcome |-> OutInvalidCode]
    ELSE [otp |-> [otp EXCEPT !.status = VERIFIED], save |-> TRUE, outcome |-> OutVerified]

\* ... the attempts check is off by one (> instead of >=):
VerifyAttemptsOffByOne(otp, code, t) ==
    IF t > otp.expiresAt
    THEN [otp |-> [otp EXCEPT !.status = EXPIRED], save |-> TRUE, outcome |-> OutExpired]
    ELSE IF otp.status = VERIFIED
    THEN [otp |-> otp, save |-> FALSE, outcome |-> OutAlreadyUsed]
    ELSE IF otp.attempts > otp.maxAttempts
    THEN [otp |-> [otp EXCEPT !.status = FAILED], save |-> TRUE, outcome |-> OutMaxAttempts]
    ELSE IF otp.code # code
    THEN [otp |-> [otp EXCEPT !.attempts = @ + 1], save |-> TRUE, outcome |-> OutInvalidCode]
    ELSE [otp |-> [otp EXCEPT !.status = VERIFIED], save |-> TRUE, outcome |-> OutVerified]

\* ... the record is failed eagerly, by the mismatch that exhausts the attempts:
VerifyFailsEagerly(otp, code, t) ==
    IF t > otp.expiresAt
    THEN [otp |-> [otp EXCEPT !.status = EXPIRED], save |-> TRUE, outcome |-> OutExpired]
    ELSE IF otp.status = VERIFIED
    THEN [otp |-> otp, save |-> FALSE, outcome |-> OutAlreadyUsed]
    ELSE IF otp.attempts >= otp.maxAttempts
    THEN [otp |-> [otp EXCEPT !.status = FAILED], save |-> TRUE, outcome |-> OutMaxAttempts]
    ELSE IF otp.code # code
    THEN [otp |-> [otp EXCEPT !.attempts = @ + 1,
                              !.status = IF otp.attempts + 1 >= otp.maxAttempts
                                         THEN FAILED ELSE @],
          save |-> TRUE, outcome |-> OutInvalidCode]
    ELSE [otp |-> [otp EXCEPT !.status = VERIFIED], save |-> TRUE, outcome |-> OutVerified]

\* ... the code is compared before the expiry is looked at:
VerifyComparesBeforeExpiry(otp, code, t) ==
    IF otp.status = VERIFIED
    THEN [otp |-> otp, save |-> FALSE, outcome |-> OutAlreadyUsed]
    ELSE IF otp.attempts >= otp.maxAttempts
    THEN [otp |-> [otp EXCEPT !.status = FAILED], save |-> TRUE, outcome |-> OutMaxAttempts]
    ELSE IF otp.code # code
    THEN [otp |-> [otp EXCEPT !.attempts = @ + 1], save |-> TRUE, outcome |-> OutInvalidCode]
    ELSE IF t > otp.expiresAt
    THEN [otp |-> [otp EXCEPT !.status = EXPIRED], save |-> TRUE, outcome |-> OutExpired]
    ELSE [otp |-> [otp EXCEPT !.status = VERIFIED], save |-> TRUE, outcome |-> OutVerified]

\* The body of verifyOtp after findOne found a row: what it does to the loaded
\* entity, whether it saves it, and how it returns.
verifyOtpEntity(otp, code, t) ==
    IF t > otp.expiresAt
    THEN [otp |-> [otp EXCEPT !.status = EXPIRED], save |-> TRUE, outcome |-> OutExpired]
    ELSE IF otp.status = VERIFIED
    THEN [otp |-> otp, save |-> FALSE, outcome |-> OutAlreadyUsed]
    ELSE IF otp.attempts >= otp.maxAttempts
    THEN [otp |-> [otp EXCEPT !.status = FAILED], save |-> TRUE, outcome |-> OutMaxAttempts]
    ELSE IF otp.code # code
    THEN [otp |-> [otp EXCEPT !.attempts = @ + 1], save |-> TRUE, outcome |-> OutInvalidCode]
    ELSE [otp |-> [otp EXCEPT !.status = VERIFIED], save |-> TRUE, outcome |-> OutVerified]

\* A plausible slip: a missing row is reported like a wrong code.
VerifyMissingAsInvalid(store, otpId, code, purpose, t) ==
    IF otpId \notin DOMAIN store
    THEN [otps |-> store, outcome |-> OutInvalidCode]
    ELSE LET d == verifyOtpEntity(store[otpId], code, t)
         IN  [otps |-> IF d.save THEN [store EXCEPT ![otpId] = d.otp] ELSE store,
              outcome |-> d.outcome]

\* verifyOtp as one sequential call: the table afterwards and the outcome.
\* (The purpose argument is only written to the log, line 117.)
verifyOtp(store, otpId, code, purpose, t) ==
    IF otpId \notin DOMAIN store
    THEN [otps |-> store, outcome |-> OutNotFound]
    ELSE LET d == verifyOtpEntity(store[otpId], code, t)
         IN  [otps |-> IF d.save THEN [store EXCEPT ![otpId] = d.otp] ELSE store,
              outcome |-> d.outcome]

\* cleanupExpiredOtps: delete the rows with expiresAt < now - 24h.
cleanupExpiredOtps(store, t) ==
    LET keep == {i \in DOMAIN store : ~(store[i].expiresAt < t - RetentionSeconds)}
    IN  [i \in keep |-> store[i]]

isEmailVerified(store, email) ==
    \E i \in DOMAIN store :
        /\ store[i].email = email
        /\ store[i].purpose = EMAIL_VERIFICATION
        /\ store[i].status = VERIFIED

isPhoneVerified(store, phone) ==
    \E i \in DOMAIN store :
        /\ store[i].phone = phone
        /\ store[i].purpose = PHONE_VERIFICATION
        /\ store[i].status = VERIFIED

\* ------------------------------------------------------- state and actions
NoCall == [op |-> "none", id |-> 0, code |-> Undefined, outcome |-> Undefined]

EmptyStore == [i \in {} |-> 0]

Callers == 1..NumCallers
NoLocal == [id |-> 0, code |-> Undefined, otp |-> Undefined, outcome |-> Undefined]

NoVerdict == [path |-> "none", status |-> Undefined]

Init ==
    /\ otps = EmptyStore
    /\ nextId = 1
    /\ now = 0
    /\ res = NoCall
    /\ verifiedReturns = [i \in OtpIds |-> 0]
    /\ pc = [p \in Callers |-> "idle"]
    /\ loc = [p \in Callers |-> NoLocal]
    /\ users = EmptyStore
    /\ blockedIps = EmptyStore
    /\ deviceFingerprints = EmptyStore
    /\ loginAttempts = EmptyStore
    /\ fraudLog = <<>>
    /\ verdict = NoVerdict
    /\ deniedIps = {}
    /\ bruteBlocks = EmptyStore

\* The clock moves by a tick; after the last tick it jumps once to a time at
\* which every row issued before the jump is older than the retention window.
LastTick == MaxTicks * TickSeconds
FarFuture == LastTick + OtpTtlSeconds + RetentionSeconds + TickSeconds

Tick ==
    /\ \/ now + TickSeconds <= LastTick /\ now' = now + TickSeconds
       \/ now = LastTick /\ now' = FarFuture
    /\ UNCHANGED <<otpVars, concVars, eligVars>>

IssueOtp(limit) ==
    /\ nextId <= limit
    /\ \E q \in IssueRequests, code \in IssuedCodes :
        /\ otps' = generateOtp(otps, nextId, q.purpose, q.email, q.phone, q.userId,
                                code, now)
        /\ res' = [op |-> "generateOtp", id |-> nextId, code |-> code,
                   outcome |-> "issued"]
    /\ nextId' = nextId + 1
    /\ UNCHANGED <<now, verifiedReturns, concVars, eligVars>>

GenerateOtp == IssueOtp(MaxOtps)

VerifyOtp ==
    /\ \E otpId \in OtpIds, code \in Codes, purpose \in VerifyPurposes :
        LET r == verifyOtp(otps, otpId, code, purpose, now)
        IN  /\ otps' = r.otps
            /\ res' = [op |-> "verifyOtp", id |-> otpId, code |-> code,
                       outcome |-> r.outcome]
            /\ verifiedReturns' =
                 IF r.outcome = OutVerified
                 THEN [verifiedReturns EXCEPT ![otpId] = @ + 1]
                 ELSE verifiedReturns
    /\ UNCHANGED <<nextId, now, concVars, eligVars>>

CleanupExpiredOtps ==
    /\ otps' = cleanupExpiredOtps(otps, now)
    /\ res' = [op |-> "cleanupExpiredOtps", id |-> 0, code |-> Undefined,
               outcome |-> Cardinality(DOMAIN otps) - Cardinality(DOMAIN otps')]
    /\ UNCHANGED <<nextId, now, verifiedReturns, concVars, eligVars>>

\* The OTP ledger under sequential (non-overlapping) calls.
OtpNext == Tick \/ GenerateOtp \/ VerifyOtp \/ CleanupExpiredOtps

SpecOtp == Init /\ [][OtpNext]_vars

\* ------------------------------------------- verifyOtp, overlapping calls
\* verifyOtp holds no lock and opens no transaction: between its awaits other
\* calls run.  A call is: findOne (the row is read into an entity), then the
\* checks on that entity, then save (the entity is written back whole).
VerifyFind(p) ==
    /\ pc[p] = "idle"
    /\ \E otpId \in 1..MaxConcOtps, code \in Codes :
        IF otpId \in DOMAIN otps
        THEN /\ pc' = [pc EXCEPT ![p] = "loaded"]
             /\ loc' = [loc EXCEPT ![p] = [id |-> otpId, code |-> code,
                                           otp |-> otps[otpId], outcome |-> Undefined]]
        ELSE /\ pc' = [pc EXCEPT ![p] = "done"]
             /\ loc' = [loc EXCEPT ![p] = [id |-> otpId, code |-> code,
                                           otp |-> Undefined, outcome |-> OutNotFound]]
    /\ UNCHANGED <<otpVars, now, eligVars>>

VerifyDecide(p) ==
    /\ pc[p] = "loaded"
    /\ LET d == verifyOtpEntity(loc[p].otp, loc[p].code, now)
       IN  /\ loc' = [loc EXCEPT ![p].otp = d.otp, ![p].outcome = d.outcome]
           /\ pc' = [pc EXCEPT ![p] = IF d.save THEN "saving" ELSE "done"]
    /\ UNCHANGED <<otpVars, now, eligVars>>

VerifySave(p) ==
    /\ pc[p] = "saving"
    /\ otps' = [otps EXCEPT ![loc[p].id] = loc[p].otp]
    /\ verifiedReturns' =
         IF loc[p].outcome = OutVerified
         THEN [verifiedReturns EXCEPT ![loc[p].id] = @ + 1]
         ELSE verifiedReturns
    /\ pc' = [pc EXCEPT ![p] = "done"]
    /\ UNCHANGED <<nextId, res, now, loc, eligVars>>

\* The caller has its answer and may call again.
VerifyReturn(p) ==
    /\ pc[p] = "done"
    /\ pc' = [pc EXCEPT ![p] = "idle"]
    /\ loc' = [loc EXCEPT ![p] = NoLocal]
    /\ UNCHANGED <<otpVars, now, eligVars>>

ConcGenerateOtp == IssueOtp(MaxConcOtps)

ConcNext ==
    \/ Tick
    \/ ConcGenerateOtp
    \/ \E p \in Callers : VerifyFind(p)
    \/ \E p \in Callers : VerifyDecide(p)
    \/ \E p \in Callers : VerifySave(p)
    \/ \E p \in Callers : VerifyReturn(p)

SpecConc == Init /\ [][ConcNext]_vars

\* ------------------------------------------ generateOtp, overlapping calls
\* generateOtp awaits invalidatePreviousOtps (one UPDATE) and later awaits
\* save (one INSERT); between the two other calls run.
MaxGenOtps == 3

GenerateInvalidate(p) ==
    /\ pc[p] = "idle"
    /\ nextId <= MaxGenOtps
    /\ \E q \in IssueRequests, code \in IssuedCodes :
        /\ otps' = invalidatePreviousOtps(otps, q.purpose, q.email, q.phone, q.userId)
        /\ loc' = [loc EXCEPT ![p] = [id |-> 0, code |-> code, otp |-> q,
                                      outcome |-> Undefined]]
    /\ pc' = [pc EXCEPT ![p] = "invalidated"]
    /\ UNCHANGED <<nextId, res, verifiedReturns, now, eligVars>>

GenerateSave(p) ==
    /\ pc[p] = "invalidated"
    /\ nextId <= MaxGenOtps
    /\ otps' = [i \in DOMAIN otps \cup {nextId} |->
                    IF i = nextId
                    THEN NewOtp(loc[p].otp.purpose, loc[p].otp.email, loc[p].otp.phone,
                                loc[p].otp.userId, loc[p].code, now)
                    ELSE otps[i]]
    /\ nextId' = nextId + 1
    /\ loc' = [loc EXCEPT ![p].id = nextId, ![p].outcome = "issued"]
    /\ pc' = [pc EXCEPT ![p] = "done"]
    /\ UNCHANGED <<res, verifiedReturns, now, eligVars>>

\* The caller has the id of its row and may call again.
GenerateReturn(p) ==
    /\ pc[p] = "done"
    /\ pc' = [pc EXCEPT ![p] = "idle"]
    /\ loc' = [loc EXCEPT ![p] = NoLocal]
    /\ UNCHANGED <<otpVars, now, eligVars>>

GenNext ==
    \/ Tick
    \/ \E p \in Callers : GenerateInvalidate(p)
    \/ \E p \in Callers : GenerateSave(p)
    \/ \E p \in Callers : GenerateReturn(p)

SpecGen == Init /\ [][GenNext]_vars

\* ------------------------------------------------------ IpBlockerService
\* blockedIps is a Map ip -> BlockedIpRecord; times are in seconds.
BlockHoursBruteforce == 24
SecondsPerHour == 60 * 60

BlockIpInMinutes(blocked, ipAddress, reason, durationHours, t) ==
    LET record == [ipAddress |-> ipAddress, reason |-> reason, blockedAt |-> t,
                   unblockAt |-> t + durationHours * 60, isActive |-> TRUE]
    IN  [ip \in DOMAIN blocked \cup {ipAddress} |->
            IF ip = ipAddress THEN record ELSE blocked[ip]]

BlockIpExtendsOnly(blocked, ipAddress, reason, durationHours, t) ==
    LET until == t + durationHours * SecondsPerHour
        record == [ipAddress |-> ipAddress, reason |-> reason, blockedAt |-> t,
                   unblockAt |-> IF ipAddress \in DOMAIN blocked
                                    /\ blocked[ipAddress].unblockAt > until
                                 THEN blocked[ipAddress].unblockAt ELSE until,
                   isActive |-> TRUE]
    IN  [ip \in DOMAIN blocked \cup {ipAddress} |->
            IF ip = ipAddress THEN record ELSE blocked[ip]]

blockIp(blocked, ipAddress, reason, durationHours, t) ==
    LET record == [ipAddress |-> ipAddress, reason |-> reason, blockedAt |-> t,
                   unblockAt |-> t + durationHours * SecondsPerHour,
                   isActive |-> TRUE]
    IN  [ip \in DOMAIN blocked \cup {ipAddress} |->
            IF ip = ipAddress THEN record ELSE blocked[ip]]

IsIpBlockedEndsAtUnblockAt(blocked, ipAddress, t) ==
    IF ipAddress \notin DOMAIN blocked
    THEN [blockedIps |-> blocked, result |-> FALSE]
    ELSE IF t > blocked[ipAddress].unblockAt
    THEN [blockedIps |-> [ip \in DOMAIN blocked \ {ipAddress} |-> blocked[ip]],
          result |-> FALSE]
    ELSE [blockedIps |-> blocked,
          result |-> blocked[ipAddress].isActive /\ t < blocked[ipAddress].unblockAt]

\* isIpBlocked answers and, when the record it finds has expired, deletes it.
isIpBlocked(blocked, ipAddress, t) ==
    IF ipAddress \notin DOMAIN blocked
    THEN [blockedIps |-> blocked, result |-> FALSE]
    ELSE IF t > blocked[ipAddress].unblockAt
    THEN [blockedIps |-> [ip \in DOMAIN blocked \ {ipAddress} |-> blocked[ip]],
          result |-> FALSE]
    ELSE [blockedIps |-> blocked, result |-> blocked[ipAddress].isActive]

\* getBlockRecord answers the record (here {record}) or null (here {}), and
\* deletes the record it finds expired.
getBlockRecord(blocked, ipAddress, t) ==
    IF ipAddress \notin DOMAIN blocked
    THEN [blockedIps |-> blocked, result |-> {}]
    ELSE IF t > blocked[ipAddress].unblockAt
    THEN [blockedIps |-> [ip \in DOMAIN blocked \ {ipAddress} |-> blocked[ip]],
          result |-> {}]
    ELSE [blockedIps |-> blocked, result |-> {blocked[ipAddress]}]

unblockIp(blocked, ipAddress) ==
    [blockedIps |-> [ip \in DOMAIN blocked \ {ipAddress} |-> blocked[ip]],
     result |-> ipAddress \in DOMAIN blocked]

GetAllWithoutSweep(blocked, t) ==
    [blockedIps |-> blocked,
     result |-> {blocked[ip] : ip \in {i \in DOMAIN blocked : t <= blocked[i].unblockAt}}]

\* getAllBlockedIps sweeps the table: a record with now <= unblockAt is
\* listed, any other is deleted.  The list is given as the set of its records.
getAllBlockedIps(blocked, t) ==
    LET active == {ip \in DOMAIN blocked : t <= blocked[ip].unblockAt}
    IN  [blockedIps |-> [ip \in active |-> blocked[ip]],
         result |-> {blocked[ip] : ip \in active}]

clearExpiredBlocks(blocked, t) ==
    LET expired == {ip \in DOMAIN blocked : t > blocked[ip].unblockAt}
    IN  [blockedIps |-> [ip \in DOMAIN blocked \ expired |-> blocked[ip]],
         result |-> Cardinality(expired)]

\* ------------------------------------------------- FraudDetectionService
BLACKLISTED_IP == "blacklisted_ip"
VPN_IP == "vpn_ip"
PROXY_IP == "proxy_ip"
TOR_IP == "tor_ip"
HIGH_RISK_COUNTRY == "high_risk_country"
BRUTEFORCE_ATTEMPT == "bruteforce_attempt"
MULTIPLE_ACCOUNTS_SAME_IP == "multiple_accounts_same_ip"

blacklistedIpRanges == {"192.0.2.0/24", "198.51.100.0/24", "203.0.113.0/24"}
highRiskCountries == {"KP", "IR", "SY", "CU"}

\* The range test is a stub that answers false for every address.
ipInRange(ip, range) == FALSE
isBlacklistedIp(ipAddress) ==
    \E range \in blacklistedIpRanges : ipInRange(ipAddress, range)

\* What the IP reputation lookup answers.  The lookup in the repository is a
\* stand-in that answers MockReputation for every address; the answers of the
\* provider it stands in for are an input of checkIpFraud.
MockReputation ==
    [isVpn |-> FALSE, isProxy |-> FALSE, isTor |-> FALSE, country |-> "US"]
TorReputation ==
    [isVpn |-> FALSE, isProxy |-> FALSE, isTor |-> TRUE, country |-> "US"]
IpReputations == {MockReputation, TorReputation}

FraudWindowMinutes == 15
FraudBruteforceCount == 5
MultipleAccountsCount == 3
FraudScoreThreshold == 50
FraudScoreMax == 100

\* FraudDetectionService.checkBruteforceAttempt: rows of the fraud log for the
\* address with reason bruteforce_attempt inside the window.
fraudCheckBruteforceAttempt(flog, ipAddress, email, t) ==
    LET timeThreshold == t - FraudWindowMinutes * 60
        rows == {i \in DOMAIN flog :
                    /\ flog[i].ipAddress = ipAddress
                    /\ flog[i].reason = BRUTEFORCE_ATTEMPT
                    /\ flog[i].timestamp >= timeThreshold}
    IN  Cardinality(rows) >= FraudBruteforceCount

checkMultipleAccountsFromIp(flog, ipAddress) ==
    Cardinality({i \in DOMAIN flog :
                    /\ flog[i].ipAddress = ipAddress
                    /\ flog[i].reason = MULTIPLE_ACCOUNTS_SAME_IP})

Uncapped(a, b) == a

Min(a, b) == IF a < b THEN a ELSE b

\* One check of checkIpFraud: the reason it pushes and the score it adds.
Hit(cond, reason, points) ==
    IF cond THEN [reasons |-> <<reason>>, score |-> points]
    ELSE [reasons |-> <<>>, score |-> 0]

checkIpFraud(flog, ipAddress, email, ipReputation, t) ==
    LET c1 == Hit(isBlacklistedIp(ipAddress), BLACKLISTED_IP, 100)
        c2 == Hit(ipReputation.isVpn, VPN_IP, 40)
        c3 == Hit(ipReputation.isProxy, PROXY_IP, 40)
        c4 == Hit(ipReputation.isTor, TOR_IP, 80)
        c5 == Hit(ipReputation.country \in highRiskCountries, HIGH_RISK_COUNTRY, 50)
        c6 == Hit(fraudCheckBruteforceAttempt(flog, ipAddress, email, t),
                  BRUTEFORCE_ATTEMPT, 60)
        c7 == Hit(email # Undefined
                    /\ checkMultipleAccountsFromIp(flog, ipAddress) >= MultipleAccountsCount,
                  MULTIPLE_ACCOUNTS_SAME_IP, 50)
        fraudScore == c1.score + c2.score + c3.score + c4.score + c5.score
                        + c6.score + c7.score
    IN  [isFraud |-> fraudScore >= FraudScoreThreshold,
         fraudScore |-> Min(fraudScore, FraudScoreMax),
         reasons |-> c1.reasons \o c2.reasons \o c3.reasons \o c4.reasons
                        \o c5.reasons \o c6.reasons \o c7.reasons]

FAKE_EMAIL == "fake_email"
DISPOSABLE_EMAIL == "disposable_email"
INVALID_MX_RECORD == "invalid_mx_record"
FAKE_PHONE == "fake_phone"
VOIP_NUMBER == "voip_number"
VIRTUAL_SIM == "virtual_sim"
INVALID_CARRIER == "invalid_carrier"

\* An email address is given by its parts around the '@'.  The sample
\* addresses are built from the parts below; SpamLocals and SpamDomains are
\* the parts among them that one of the spam patterns matches.
disposableEmailDomains ==
    {"tempmail.com", "guerrillamail.com", "10minutemail.com", "mailinator.com",
     "throwaway.email", "temp-mail.org", "yopmail.com", "maildrop.cc",
     "trashmail.com", "fakeinbox.com", "temp-mail.io", "sharklasers.com",
     "spam4.me", "mailnesia.com", "tempmail.net"}
EmailLocals == {"alice", "test.user", "12345"}
EmailDomains == {"b.com", "mailinator.com", "fakeinbox.com"}
SpamLocals == {"test.user", "12345"}
SpamDomains == {"fakeinbox.com"}

isDisposableEmail(email) == email.domain \in disposableEmailDomains
hasSpamPatterns(email) == email.local \in SpamLocals \/ email.domain \in SpamDomains

\* checkEmailFraud; hasMxRecord is what the DNS lookup of the domain gave
\* (false when it failed).
checkEmailFraud(email, hasMxRecord) ==
    LET c1 == Hit(isDisposableEmail(email), DISPOSABLE_EMAIL, 40)
        c2 == Hit(~hasMxRecord, INVALID_MX_RECORD, 50)
        c3 == Hit(hasSpamPatterns(email), FAKE_EMAIL, 30)
        fraudScore == c1.score + c2.score + c3.score
    IN  [isFraud |-> fraudScore >= FraudScoreThreshold,
         fraudScore |-> Min(fraudScore, FraudScoreMax),
         reasons |-> c1.reasons \o c2.reasons \o c3.reasons]

\* A phone number is the sequence of its characters.
Digits == {"0", "1", "2", "3", "4", "5", "6", "7", "8", "9"}
isValidPhoneFormat(phoneNumber) ==
    LET digitsOnly == SelectSeq(phoneNumber, LAMBDA c : c \in Digits)
    IN  Len(digitsOnly) >= 10 /\ Len(digitsOnly) <= 15

\* What the carrier lookup answers.  The lookup in the repository is a
\* stand-in that answers MockCarrier for every number and never reports a
\* recycled number; the answers of the providers they stand in for are
\* inputs of checkPhoneFraud.
MockCarrier == [isValid |-> TRUE, isVoip |-> FALSE, isVirtual |-> FALSE]
CarrierInfos == [isValid : BOOLEAN, isVoip : BOOLEAN, isVirtual : BOOLEAN]

checkPhoneFraud(phoneNumber, carrierInfo, recycled) ==
    LET c1 == Hit(~isValidPhoneFormat(phoneNumber), FAKE_PHONE, 40)
        c2 == Hit(~carrierInfo.isValid, INVALID_CARRIER, 50)
        c3 == Hit(carrierInfo.isValid /\ carrierInfo.isVoip, VOIP_NUMBER, 60)
        c4 == Hit(carrierInfo.isValid /\ carrierInfo.isVirtual, VIRTUAL_SIM, 70)
        c5 == Hit(recycled, FAKE_PHONE, 35)
        fraudScore == c1.score + c2.score + c3.score + c4.score + c5.score
    IN  [isFraud |-> fraudScore >= FraudScoreThreshold,
         fraudScore |-> Min(fraudScore, FraudScoreMax),
         reasons |-> c1.reasons \o c2.reasons \o c3.reasons \o c4.reasons
                        \o c5.reasons]

logFraudAttempt(flog, ipAddress, email, phone, reason, t) ==
    Append(flog, [ipAddress |-> ipAddress, email |-> email, phone |-> phone,
                  reason |-> reason, timestamp |-> t])

\* ----------------------------------------------- DualVerificationService
ACTIVE == "active"
SUSPENDED == "suspended"
PENDING_VERIFICATION == "pending_verification"

AttemptRetentionSeconds == 24 * 60 * 60
BruteforceWindowSeconds == 15 * 60
BruteforceFailures == 5
BurstSize == 5
BurstSeconds == 30
FreezeMinutes == 30

AttemptKey(email, ipAddress) == email \o ":" \o ipAddress

AttemptsOf(attempts, key) == IF key \in DOMAIN attempts THEN attempts[key] ELSE <<>>

RecordWithoutPruning(attempts, email, ipAddress, success, t) ==
    LET key == AttemptKey(email, ipAddress)
        pushed == Append(AttemptsOf(attempts, key),
                         [ipAddress |-> ipAddress, email |-> email,
                          timestamp |-> t, success |-> success])
    IN  [k \in DOMAIN attempts \cup {key} |->
            IF k = key THEN pushed ELSE attempts[k]]

\* recordLoginAttempt appends to the key's list and keeps of that list the
\* records younger than 24 hours.  The record's reason is logged only.
recordLoginAttempt(attempts, email, ipAddress, success, t) ==
    LET key == AttemptKey(email, ipAddress)
        pushed == Append(AttemptsOf(attempts, key),
                         [ipAddress |-> ipAddress, email |-> email,
                          timestamp |-> t, success |-> success])
        oneDayAgo == t - AttemptRetentionSeconds
        recentAttempts == SelectSeq(pushed, LAMBDA a : a.timestamp > oneDayAgo)
    IN  [k \in DOMAIN attempts \cup {key} |->
            IF k = key THEN recentAttempts ELSE attempts[k]]

CheckBruteforceRecentBurst(attempts, email, ipAddress, t) ==
    LET list == AttemptsOf(attempts, AttemptKey(email, ipAddress))
        fifteenMinutesAgo == t - BruteforceWindowSeconds
        recentFailedAttempts ==
            SelectSeq(list, LAMBDA a : ~a.success /\ a.timestamp > fifteenMinutesAgo)
        n == Len(list)
    IN  IF n >= BurstSize
           /\ list[n].timestamp - list[n - BurstSize + 1].timestamp < BurstSeconds
           /\ list[n].timestamp > fifteenMinutesAgo
        THEN TRUE
        ELSE Len(recentFailedAttempts) >= BruteforceFailures

CheckBruteforceMoreThanFive(attempts, email, ipAddress, t) ==
    LET list == AttemptsOf(attempts, AttemptKey(email, ipAddress))
        fifteenMinutesAgo == t - BruteforceWindowSeconds
        recentFailedAttempts ==
            SelectSeq(list, LAMBDA a : ~a.success /\ a.timestamp > fifteenMinutesAgo)
        n == Len(list)
    IN  IF n >= BurstSize
           /\ list[n].timestamp - list[n - BurstSize + 1].timestamp < BurstSeconds
        THEN TRUE
        ELSE Len(recentFailedAttempts) > BruteforceFailures

CheckBruteforceBurstOfFailures(attempts, email, ipAddress, t) ==
    LET list == AttemptsOf(attempts, AttemptKey(email, ipAddress))
        fifteenMinutesAgo == t - BruteforceWindowSeconds
        recentFailedAttempts ==
            SelectSeq(list, LAMBDA a : ~a.success /\ a.timestamp > fifteenMinutesAgo)
        n == Len(list)
    IN  IF n >= BurstSize
           /\ list[n].timestamp - list[n - BurstSize + 1].timestamp < BurstSeconds
           /\ \A i \in (n - BurstSize + 1)..n : ~list[i].success
        THEN TRUE
        ELSE Len(recentFailedAttempts) >= BruteforceFailures

\* DualVerificationService.checkBruteforceAttempt: the burst test on the last
\* five records comes first, then the count of recent failures.
checkBruteforceAttempt(attempts, email, ipAddress, t) ==
    LET list == AttemptsOf(attempts, AttemptKey(email, ipAddress))
        fifteenMinutesAgo == t - BruteforceWindowSeconds
        recentFailedAttempts ==
            SelectSeq(list, LAMBDA a : ~a.success /\ a.timestamp > fifteenMinutesAgo)
        n == Len(list)
    IN  IF n >= BurstSize
           /\ list[n].timestamp - list[n - BurstSize + 1].timestamp < BurstSeconds
        THEN TRUE
        ELSE Len(recentFailedAttempts) >= BruteforceFailures

IsDeviceTrustedAtFirstSight(devices, deviceFingerprint, t) ==
    [deviceFingerprints |->
        [d \in DOMAIN devices \cup {deviceFingerprint} |->
            IF d \in DOMAIN devices THEN devices[d] ELSE [attempts |-> 1]],
     result |-> TRUE]

IsDeviceNeverStored(devices, deviceFingerprint, t) ==
    [deviceFingerprints |-> devices, result |-> FALSE]

\* isDeviceTrusted: an unseen fingerprint is stored and not trusted; a seen one
\* is trusted and its record is updated.  The record's lastSeen is written
\* here and read nowhere; the model keeps the attempts counter only.
isDeviceTrusted(devices, deviceFingerprint, t) ==
    IF deviceFingerprint \notin DOMAIN devices
    THEN [deviceFingerprints |->
            [d \in DOMAIN devices \cup {deviceFingerprint} |->
                IF d = deviceFingerprint THEN [attempts |-> 1]
                ELSE devices[d]],
          result |-> FALSE]
    ELSE [deviceFingerprints |->
            [devices EXCEPT ![deviceFingerprint] = [attempts |-> @.attempts + 1]],
          result |-> TRUE]

RECURSIVE Join(_)
Join(reasons) ==
    IF reasons = <<>> THEN ""
    ELSE IF Len(reasons) = 1 THEN reasons[1]
    ELSE reasons[1] \o ", " \o Join(Tail(reasons))

ReasonNotFound == "User not found"
ReasonIpBlocked == "IP address is blocked due to suspicious activity"
ReasonEmail == "Email not verified"
ReasonPhone == "Mobile number not verified"
ReasonFraud(reasons) == "IP fraud detected: " \o Join(reasons)
ReasonBruteforce == "Too many login attempts. Please try again later."
ReasonDevice == "Unrecognized device. Additional verification required."
ReasonSuspended == "Account is temporarily locked. Please contact support."
ReasonFrozen == "Account is temporarily frozen due to security concerns."
ReasonError == "Security check failed. Please try again."

RefusedWithCleanIp(failureReasons) ==
    [emailVerified |-> FALSE, phoneVerified |-> FALSE, fraudCheckPassed |-> FALSE,
     ipClean |-> TRUE, sessionValid |-> FALSE, canLogin |-> FALSE,
     failureReasons |-> failureReasons]

\* The VerificationStatus returned when the user is unknown or a lookup fails.
Refused(failureReasons) ==
    [emailVerified |-> FALSE, phoneVerified |-> FALSE, fraudCheckPassed |-> FALSE,
     ipClean |-> FALSE, sessionValid |-> FALSE, canLogin |-> FALSE,
     failureReasons |-> failureReasons]

CanLoginIgnoringPhone(emailVerified, phoneVerified, fraudCheckPassed, ipClean, sessionValid) ==
    emailVerified /\ fraudCheckPassed /\ ipClean /\ sessionValid

canLogin(emailVerified, phoneVerified, fraudCheckPassed, ipClean, sessionValid) ==
    emailVerified /\ phoneVerified /\ fraudCheckPassed /\ ipClean /\ sessionValid

Push(seq, cond, reason) == IF cond THEN Append(seq, reason) ELSE seq

\* checkLoginEligibility.  sys holds the stores the handler reads; env holds
\* what its surroundings answer during the call: ipReputation, and findFails
\* (the users lookup throws, the one await of the handler whose failure
\* reaches its catch block).  The result carries the status and the stores the
\* handler has written.
checkLoginEligibility(sys, email, ipAddress, deviceFingerprint, env, t) ==
    LET userTable == sys.users
        ledger == sys.otps
        blocked == sys.blockedIps
        devices == sys.deviceFingerprints
        attempts == sys.loginAttempts
        flog == sys.fraudLog
        ipReputation == env.ipReputation
    IN
    IF env.findFails
    THEN [path |-> "error", status |-> Refused(<<ReasonError>>),
          blockedIps |-> blocked, deviceFingerprints |-> devices, fraudLog |-> flog]
    ELSE IF email \notin DOMAIN userTable
    THEN [path |-> "notFound", status |-> Refused(<<ReasonNotFound>>),
          blockedIps |-> blocked, deviceFingerprints |-> devices, fraudLog |-> flog]
    ELSE
    LET user == userTable[email]
        hasPhone == user.phone # Undefined
        blk == isIpBlocked(blocked, ipAddress, t)
        emailVerified == isEmailVerified(ledger, email)
        phoneVerified == IF hasPhone THEN isPhoneVerified(ledger, user.phone) ELSE FALSE
        ipFraudCheck == checkIpFraud(flog, ipAddress, email, ipReputation, t)
        flog2 == IF ipFraudCheck.isFraud
                 THEN logFraudAttempt(flog, ipAddress, email,
                                      IF hasPhone THEN user.phone ELSE "",
                                      IF ipFraudCheck.reasons # <<>>
                                      THEN ipFraudCheck.reasons[1] ELSE BLACKLISTED_IP,
                                      t)
                 ELSE flog
        bruteforceDetected == checkBruteforceAttempt(attempts, email, ipAddress, t)
        blocked2 == IF bruteforceDetected
                    THEN blockIp(blk.blockedIps, ipAddress,
                                 "Bruteforce attack detected", BlockHoursBruteforce, t)
                    ELSE blk.blockedIps
        dev == IF deviceFingerprint # Undefined
               THEN isDeviceTrusted(devices, deviceFingerprint, t)
               ELSE [deviceFingerprints |-> devices, result |-> TRUE]
        suspended == user.status = SUSPENDED
        frozen == \E until \in user.lockedUntil : t < until
        fraudCheckPassed == ~ipFraudCheck.isFraud /\ ~bruteforceDetected
        ipClean == ~blk.result /\ ~ipFraudCheck.isFraud /\ ~bruteforceDetected
        sessionValid == dev.result /\ ~suspended /\ ~frozen
        r2 == Push(<<>>, blk.result, ReasonIpBlocked)
        r3 == Push(r2, ~emailVerified, ReasonEmail)
        r4 == Push(r3, hasPhone /\ ~phoneVerified, ReasonPhone)
        r5 == Push(r4, ipFraudCheck.isFraud, ReasonFraud(ipFraudCheck.reasons))
        r6 == Push(r5, bruteforceDetected, ReasonBruteforce)
        r7 == Push(r6, ~dev.result, ReasonDevice)
        r8 == Push(r7, suspended, ReasonSuspended)
        r9 == Push(r8, frozen, ReasonFrozen)
    IN  [path |-> "normal",
         status |-> [emailVerified |-> emailVerified, phoneVerified |-> phoneVerified,
                     fraudCheckPassed |-> fraudCheckPassed, ipClean |-> ipClean,
                     sessionValid |-> sessionValid,
                     canLogin |-> canLogin(emailVerified, phoneVerified,
                                           fraudCheckPassed, ipClean, sessionValid),
                     failureReasons |-> r9],
         blockedIps |-> blocked2, deviceFingerprints |-> dev.deviceFingerprints,
         fraudLog |-> flog2]

freezeUserAccount(userTable, email, durationMinutes, t) ==
    IF email \notin DOMAIN userTable THEN userTable
    ELSE [userTable EXCEPT ![email].lockedUntil = {t + durationMinutes * 60},
                           ![email].status = SUSPENDED]

unfreezeUserAccount(userTable, email) ==
    IF email \notin DOMAIN userTable THEN userTable
    ELSE [userTable EXCEPT ![email].lockedUntil = {}, ![email].status = ACTIVE]

\* ------------------------------------------ login eligibility: the system
KnownEmail == "a@b.com"
KnownPhone == "+923001234567"
Emails == {KnownEmail, "x@y.com"}
Ips == {"10.0.0.1"}
Fingerprints == {"fp-1"}

\* The users table after registration: one account, with or without a phone,
\* in the status register gives it.  lockedUntil is {} for null, {t} for a date.
RegisteredUsers ==
    {[e \in {KnownEmail} |->
        [phone |-> phone, status |-> PENDING_VERIFICATION, lockedUntil |-> {}]] :
        phone \in {Undefined, KnownPhone}}

\* OTP ledgers after the account's email and/or phone were verified at time 0.
Issued(store, id, purpose, email, phone) ==
    generateOtp(store, id, purpose, email, phone, Undefined, "111111", 0)
Verify(store, id, purpose) == verifyOtp(store, id, "111111", purpose, 0).otps
LedgerEmail ==
    Verify(Issued(EmptyStore, 1, EMAIL_VERIFICATION, KnownEmail, Undefined),
           1, EMAIL_VERIFICATION)
LedgerPhone ==
    Verify(Issued(EmptyStore, 1, PHONE_VERIFICATION, Undefined, KnownPhone),
           1, PHONE_VERIFICATION)
LedgerBoth ==
    Verify(Issued(LedgerEmail, 2, PHONE_VERIFICATION, Undefined, KnownPhone),
           2, PHONE_VERIFICATION)
Ledgers == {EmptyStore, LedgerEmail, LedgerPhone, LedgerBoth}

\* Login attempt stores: none recorded, or n failures recorded at time 0.
RECURSIVE RecordFailures(_, _, _, _)
RecordFailures(attempts, email, ipAddress, n) ==
    IF n = 0 THEN attempts
    ELSE RecordFailures(recordLoginAttempt(attempts, email, ipAddress, FALSE, 0),
                        email, ipAddress, n - 1)
RecordedAttempts ==
    {EmptyStore} \cup
    {RecordFailures(EmptyStore, KnownEmail, ip, BruteforceFailures) : ip \in Ips}

EligInit ==
    /\ otps \in Ledgers
    /\ nextId = Cardinality(DOMAIN otps) + 1
    /\ now = 0
    /\ res = NoCall
    /\ verifiedReturns = [i \in OtpIds |-> IF i \in DOMAIN otps THEN 1 ELSE 0]
    /\ pc = [p \in Callers |-> "idle"]
    /\ loc = [p \in Callers |-> NoLocal]
    /\ users \in RegisteredUsers
    /\ blockedIps = EmptyStore
    /\ deviceFingerprints = EmptyStore
    /\ loginAttempts \in RecordedAttempts
    /\ fraudLog = <<>>
    /\ verdict = NoVerdict
    /\ deniedIps = {}
    /\ bruteBlocks = EmptyStore

System ==
    [users |-> users, otps |-> otps, blockedIps |-> blockedIps,
     deviceFingerprints |-> deviceFingerprints, loginAttempts |-> loginAttempts,
     fraudLog |-> fraudLog]

Environments == [ipReputation : IpReputations, findFails : BOOLEAN]

Eligibility(email, ipAddress, deviceFingerprint, env) ==
    checkLoginEligibility(System, email, ipAddress, deviceFingerprint, env, now)

\* One call of checkLoginEligibility and what it writes.
EligibilityStep(email, ipAddress, deviceFingerprint, env) ==
    \E r \in {Eligibility(email, ipAddress, deviceFingerprint, env)} :
        /\ Len(r.fraudLog) <= MaxFraudLog
        /\ \A d \in DOMAIN r.deviceFingerprints :
                r.deviceFingerprints[d].attempts <= MaxDeviceAttempts
        /\ blockedIps' = r.blockedIps
        /\ deviceFingerprints' = r.deviceFingerprints
        /\ fraudLog' = r.fraudLog
        /\ verdict' = [path |-> r.path, status |-> r.status]
        /\ UNCHANGED <<otpVars, now, concVars, users, loginAttempts>>

CheckLoginEligibility ==
    \E email \in Emails, ipAddress \in Ips,
       deviceFingerprint \in Fingerprints \cup {Undefined}, env \in Environments :
        /\ EligibilityStep(email, ipAddress, deviceFingerprint, env)
        /\ UNCHANGED histVars

FreezeUserAccount ==
    \E email \in Emails :
        /\ users' = freezeUserAccount(users, email, FreezeMinutes, now)
        /\ UNCHANGED <<otpVars, now, concVars, blockedIps, deviceFingerprints,
                       loginAttempts, fraudLog, verdict, histVars>>

UnfreezeUserAccount ==
    \E email \in Emails :
        /\ users' = unfreezeUserAccount(users, email)
        /\ UNCHANGED <<otpVars, now, concVars, blockedIps, deviceFingerprints,
                       loginAttempts, fraudLog, verdict, histVars>>

EligNext == Tick \/ CheckLoginEligibility \/ FreezeUserAccount \/ UnfreezeUserAccount

SpecElig == EligInit /\ [][EligNext]_vars

\* -------------------------------------------------- the IP block registry
\* The registry under its own operations and the brute-force escalation of
\* checkLoginEligibility.  The clock is sampled at the instants around the
\* hour boundaries of the block durations in use.
RegistryIps == {"10.0.0.1", "10.0.0.2"}
DefaultBlockHours == 24
BlockDurations == {1, DefaultBlockHours}
ManualReason == "manual block"
BruteforceReason == "Bruteforce attack detected"
Instants ==
    {h * SecondsPerHour + j : h \in {0} \cup BlockDurations, j \in -Slack..Slack} \cap Nat

RegistryInit ==
    /\ otps = LedgerBoth
    /\ nextId = Cardinality(DOMAIN otps) + 1
    /\ now = 0
    /\ res = NoCall
    /\ verifiedReturns = [i \in OtpIds |-> IF i \in DOMAIN otps THEN 1 ELSE 0]
    /\ pc = [p \in Callers |-> "idle"]
    /\ loc = [p \in Callers |-> NoLocal]
    /\ users \in {u \in RegisteredUsers : u[KnownEmail].phone = KnownPhone}
    /\ blockedIps = EmptyStore
    /\ deviceFingerprints = EmptyStore
    /\ loginAttempts = EmptyStore
    /\ fraudLog = <<>>
    /\ verdict = NoVerdict
    /\ deniedIps = {}
    /\ bruteBlocks = [ip \in RegistryIps |-> {}]

registryFrame == <<otps, nextId, verifiedReturns, concVars, users, deviceFingerprints,
                   loginAttempts, fraudLog, verdict>>

Advance ==
    /\ \E t \in Instants : t > now /\ now' = t
    /\ UNCHANGED <<otpVars, concVars, eligVars>>

BlockIpOn(ips) ==
    \E ipAddress \in ips, durationHours \in BlockDurations :
        /\ blockedIps' = blockIp(blockedIps, ipAddress, ManualReason, durationHours, now)
        /\ res' = [op |-> "blockIp", ip |-> ipAddress, outcome |-> blockedIps'[ipAddress],
                   replaced |-> IF ipAddress \in DOMAIN blockedIps
                                THEN {blockedIps[ipAddress]} ELSE {}]
        /\ deniedIps' = deniedIps \ {ipAddress}
        /\ bruteBlocks' = [bruteBlocks EXCEPT ![ipAddress] =
                              {[b EXCEPT !.reblocked = TRUE] : b \in @}]
        /\ UNCHANGED <<now, registryFrame>>

UnblockIpOn(ips) ==
    \E ipAddress \in ips :
        \E r \in {unblockIp(blockedIps, ipAddress)} :
            /\ blockedIps' = r.blockedIps
            /\ res' = [op |-> "unblockIp", ip |-> ipAddress, outcome |-> r.result]
            /\ bruteBlocks' = [bruteBlocks EXCEPT ![ipAddress] = {}]
            /\ UNCHANGED <<now, registryFrame, deniedIps>>

IsIpBlockedOn(ips) ==
    \E ipAddress \in ips :
        \E r \in {isIpBlocked(blockedIps, ipAddress, now)} :
            /\ blockedIps' = r.blockedIps
            /\ res' = [op |-> "isIpBlocked", ip |-> ipAddress, outcome |-> r.result]
            /\ deniedIps' = IF r.result THEN deniedIps ELSE deniedIps \cup {ipAddress}
            /\ UNCHANGED <<now, registryFrame, bruteBlocks>>

GetBlockRecord ==
    \E ipAddress \in RegistryIps :
        \E r \in {getBlockRecord(blockedIps, ipAddress, now)} :
            /\ blockedIps' = r.blockedIps
            /\ res' = [op |-> "getBlockRecord", ip |-> ipAddress, outcome |-> r.result]
            /\ deniedIps' = IF r.result = {} THEN deniedIps \cup {ipAddress} ELSE deniedIps
            /\ UNCHANGED <<now, registryFrame, bruteBlocks>>

GetAllBlockedIps ==
    \E r \in {getAllBlockedIps(blockedIps, now)} :
        /\ blockedIps' = r.blockedIps
        /\ res' = [op |-> "getAllBlockedIps", ip |-> Undefined, outcome |-> r.result,
                   swept |-> Cardinality(DOMAIN blockedIps) - Cardinality(DOMAIN r.blockedIps)]
        /\ UNCHANGED <<now, registryFrame, histVars>>

ClearExpiredBlocks ==
    \E r \in {clearExpiredBlocks(blockedIps, now)} :
        /\ blockedIps' = r.blockedIps
        /\ res' = [op |-> "clearExpiredBlocks", ip |-> Undefined, outcome |-> r.result]
        /\ UNCHANGED <<now, registryFrame, histVars>>

BlockIp == BlockIpOn(RegistryIps)
UnblockIp == UnblockIpOn(RegistryIps)
IsIpBlocked == IsIpBlockedOn(RegistryIps)

RegistryNext ==
    \/ Advance
    \/ BlockIp
    \/ UnblockIp
    \/ IsIpBlocked
    \/ GetBlockRecord
    \/ GetAllBlockedIps
    \/ ClearExpiredBlocks

SpecBlock == RegistryInit /\ [][RegistryNext]_vars

\* ------------------------------------------- the brute-force escalation
\* checkLoginEligibility together with the registry operations on the one
\* address the recorded login attempts came from.
BruteInit ==
    /\ otps = LedgerBoth
    /\ nextId = Cardinality(DOMAIN otps) + 1
    /\ now = 0
    /\ res = NoCall
    /\ verifiedReturns = [i \in OtpIds |-> IF i \in DOMAIN otps THEN 1 ELSE 0]
    /\ pc = [p \in Callers |-> "idle"]
    /\ loc = [p \in Callers |-> NoLocal]
    /\ users \in {u \in RegisteredUsers : u[KnownEmail].phone = KnownPhone}
    /\ blockedIps = EmptyStore
    /\ deviceFingerprints = EmptyStore
    /\ loginAttempts \in RecordedAttempts
    /\ fraudLog = <<>>
    /\ verdict = NoVerdict
    /\ deniedIps = {}
    /\ bruteBlocks = [ip \in RegistryIps |-> {}]

\* checkLoginEligibility as the registry sees it: its lookup of the address
\* and, when the brute-force check triggers, its blockIp.
BruteCheckLoginEligibility ==
    \E ipAddress \in Ips :
        /\ EligibilityStep(KnownEmail, ipAddress, Undefined,
                           [ipReputation |-> MockReputation, findFails |-> FALSE])
        /\ \E looked \in {isIpBlocked(blockedIps, ipAddress, now).result},
              brute \in {checkBruteforceAttempt(loginAttempts, KnownEmail, ipAddress, now)} :
            /\ deniedIps' = IF brute THEN deniedIps \ {ipAddress}
                            ELSE IF looked THEN deniedIps
                            ELSE deniedIps \cup {ipAddress}
            /\ bruteBlocks' = IF brute
                              THEN [bruteBlocks EXCEPT ![ipAddress] =
                                        {[at |-> now, reblocked |-> FALSE]}]
                              ELSE bruteBlocks

BruteBlockIp == BlockIpOn(Ips)
BruteUnblockIp == UnblockIpOn(Ips)
BruteIsIpBlocked == IsIpBlockedOn(Ips)

BruteNext ==
    \/ Advance
    \/ BruteBlockIp
    \/ BruteUnblockIp
    \/ BruteIsIpBlocked
    \/ BruteCheckLoginEligibility

SpecBrute == BruteInit /\ [][BruteNext]_vars

\* ------------------------------------- the registry under any duration
\* blockIp takes durationHours as a plain number and does not validate it:
\* the registry under calls that pass zero and negative durations as well.
DurationValues == BlockDurations \cup {0, -1}

BlockIpAnyDuration ==
    \E ipAddress \in RegistryIps, durationHours \in DurationValues :
        /\ blockedIps' = blockIp(blockedIps, ipAddress, ManualReason, durationHours, now)
        /\ res' = [op |-> "blockIp", ip |-> ipAddress, outcome |-> blockedIps'[ipAddress],
                   replaced |-> IF ipAddress \in DOMAIN blockedIps
                                THEN {blockedIps[ipAddress]} ELSE {}]
        /\ deniedIps' = deniedIps \ {ipAddress}
        /\ bruteBlocks' = [bruteBlocks EXCEPT ![ipAddress] =
                              {[b EXCEPT !.reblocked = TRUE] : b \in @}]
        /\ UNCHANGED <<now, registryFrame>>

DurationNext ==
    \/ Advance
    \/ BlockIpAnyDuration
    \/ UnblockIp
    \/ IsIpBlocked
    \/ GetAllBlockedIps

SpecDuration == RegistryInit /\ [][DurationNext]_vars

\* ------------------------------------------- the login attempt tracker
\* recordLoginAttempt and checkBruteforceAttempt of DualVerificationService
\* on the attempts of one key, beside another key's list.  The clock is
\* sampled at the window boundaries (30 seconds, 15 minutes, 24 hours) and
\* one second after.
MaxTrackedAttempts == 5
OtherEmail == "x@y.com"
TrackOffsets == {0, 1}
TrackInstants ==
    {BurstSeconds} \cup
    {b + j : b \in {0, BruteforceWindowSeconds, AttemptRetentionSeconds}, j \in TrackOffsets}

\* clearLoginAttempts: with an address, the record of that key goes; without
\* one, every key of the email goes.
clearLoginAttempts(attempts, email, ipAddress) ==
    LET gone == IF ipAddress # Undefined THEN {AttemptKey(email, ipAddress)}
                ELSE {k \in DOMAIN attempts :
                        \E ip \in Ips : k = AttemptKey(email, ip)}
    IN  [k \in DOMAIN attempts \ gone |-> attempts[k]]

TrackInit ==
    /\ otps = EmptyStore
    /\ nextId = 1
    /\ now = 0
    /\ res = NoCall
    /\ verifiedReturns = [i \in OtpIds |-> 0]
    /\ pc = [p \in Callers |-> "idle"]
    /\ loc = [p \in Callers |-> NoLocal]
    /\ users \in {u \in RegisteredUsers : u[KnownEmail].phone = KnownPhone}
    /\ blockedIps = EmptyStore
    /\ deviceFingerprints = EmptyStore
    /\ loginAttempts \in
        {EmptyStore} \cup
        {recordLoginAttempt(EmptyStore, OtherEmail, ip, FALSE, 0) : ip \in Ips}
    /\ fraudLog = <<>>
    /\ verdict = NoVerdict
    /\ deniedIps = {}
    /\ bruteBlocks = EmptyStore

trackFrame == <<otps, nextId, verifiedReturns, concVars, users, blockedIps,
                deviceFingerprints, fraudLog, verdict, histVars>>

TrackAdvance ==
    /\ \E t \in TrackInstants : t > now /\ now' = t
    /\ UNCHANGED <<res, loginAttempts, trackFrame>>

RecordLoginAttempt ==
    \E ipAddress \in Ips, success \in BOOLEAN :
        \E after \in {recordLoginAttempt(loginAttempts, KnownEmail, ipAddress, success, now)} :
            \E key \in {AttemptKey(KnownEmail, ipAddress)} :
                /\ Len(after[key]) <= MaxTrackedAttempts
                /\ loginAttempts' = after
                /\ res' = [op |-> "recordLoginAttempt", email |-> KnownEmail,
                           ip |-> ipAddress, success |-> success, at |-> now,
                           pruned |-> Len(AttemptsOf(loginAttempts, key)) + 1
                                        - Len(after[key])]
                /\ UNCHANGED <<now, trackFrame>>

CheckBruteforceAttempt ==
    \E email \in Emails, ipAddress \in Ips :
        /\ res' = [op |-> "checkBruteforceAttempt", email |-> email, ip |-> ipAddress,
                   outcome |-> checkBruteforceAttempt(loginAttempts, email, ipAddress, now)]
        /\ UNCHANGED <<now, loginAttempts, trackFrame>>

ClearLoginAttempts ==
    \E email \in Emails, ipAddress \in Ips \cup {Undefined} :
        /\ loginAttempts' = clearLoginAttempts(loginAttempts, email, ipAddress)
        /\ res' = [op |-> "clearLoginAttempts", email |-> email, ip |-> ipAddress]
        /\ UNCHANGED <<now, trackFrame>>

TrackNext ==
    TrackAdvance \/ RecordLoginAttempt \/ CheckBruteforceAttempt \/ ClearLoginAttempts

SpecTrack == TrackInit /\ [][TrackNext]_vars

\* ------------------------------------------------------------ AuthService
\* signin, confirmMfa and the account fields they read and write.  A date
\* column is {} for null and {t} for a date; so are an optional mfaCode and
\* the stored refresh token.
LockThreshold == 5
LockSeconds == 15 * 60
TotpStepSeconds == 30
TotpWindow == 2

InvalidCredentials == "Invalid credentials"
LockedOrInactive == "Account is locked or inactive. Please contact support."
MfaRequired == "MFA code required"
InvalidMfa == "Invalid MFA code"
SignedIn == "signed in"
MfaEnabledOk == "MFA enabled successfully"

\* The password column holds a bcrypt hash; validatePassword compares the
\* candidate with it.
Hash(password) == <<"$2", password>>
validatePassword(user, password) == user.password = Hash(password)

isAccountLocked(user, t) == \E until \in user.lockedUntil : until > t

CanAttemptLoginWhileSuspended(user, t) == ~isAccountLocked(user, t)

canAttemptLogin(user, t) == user.status = ACTIVE /\ ~isAccountLocked(user, t)

\* A TOTP code is the code of one time step under one secret; verification
\* with window 2 accepts the codes of the current step and of the two steps
\* on either side.
TotpCode(secret, t) == [secret |-> secret, counter |-> t \div TotpStepSeconds]

TotpVerifyAnyStep(secret, mfaCode, t) ==
    \E token \in mfaCode : token.secret = secret

totpVerify(secret, mfaCode, t) ==
    \E token \in mfaCode :
        /\ token.secret = secret
        /\ token.counter >= t \div TotpStepSeconds - TotpWindow
        /\ token.counter <= t \div TotpStepSeconds + TotpWindow

FailedAttemptLocksForAnHour(user, t) ==
    IF user.failedLoginAttempts + 1 >= LockThreshold
    THEN [user EXCEPT !.failedLoginAttempts = @ + 1,
                      !.lockedUntil = {t + 60 * 60}, !.status = SUSPENDED]
    ELSE [user EXCEPT !.failedLoginAttempts = @ + 1]

\* The wrong-password branch of signin: count the failure and lock the
\* account from the fifth on.
failedAttempt(user, t) ==
    IF user.failedLoginAttempts + 1 >= LockThreshold
    THEN [user EXCEPT !.failedLoginAttempts = @ + 1,
                      !.lockedUntil = {t + LockSeconds}, !.status = SUSPENDED]
    ELSE [user EXCEPT !.failedLoginAttempts = @ + 1]

ResetKeepsFailedAttempts(user) ==
    [user EXCEPT !.lockedUntil = {}, !.status = ACTIVE]

\* The success branch of signin.  lastLoginAt and lastLoginIp are written
\* here and read nowhere; the model leaves them out.
resetFailedAttempts(user) ==
    [user EXCEPT !.failedLoginAttempts = 0, !.lockedUntil = {}, !.status = ACTIVE]

\* A signed token is its payload, its kind and the time it was signed at.
Token(email, kind, t) == [sub |-> email, kind |-> kind, iat |-> t]

generateTokens(user, email, t) ==
    [user |-> [user EXCEPT !.refreshToken = {Token(email, "refresh", t)}],
     tokens |-> {[accessToken |-> Token(email, "access", t),
                  refreshToken |-> Token(email, "refresh", t)]}]

Rejected(userTable, message) ==
    [users |-> userTable, outcome |-> message, tokens |-> {}]

signin(userTable, email, password, mfaCode, t) ==
    IF email \notin DOMAIN userTable THEN Rejected(userTable, InvalidCredentials)
    ELSE IF ~canAttemptLogin(userTable[email], t)
    THEN Rejected(userTable, LockedOrInactive)
    ELSE IF ~validatePassword(userTable[email], password)
    THEN Rejected([userTable EXCEPT ![email] = failedAttempt(@, t)], InvalidCredentials)
    ELSE IF userTable[email].mfaEnabled /\ mfaCode = {}
    THEN Rejected(userTable, MfaRequired)
    ELSE IF userTable[email].mfaEnabled
            /\ ~totpVerify(userTable[email].mfaSecret, mfaCode, t)
    THEN Rejected(userTable, InvalidMfa)
    ELSE \* bind the issued tokens once
         LET issued == generateTokens(resetFailedAttempts(userTable[email]), email, t)
         IN  [users |-> [userTable EXCEPT ![email] = issued.user],
              outcome |-> SignedIn, tokens |-> issued.tokens]

confirmMfa(userTable, email, mfaCode, secret, t) ==
    IF ~totpVerify(secret, mfaCode, t)
    THEN [users |-> userTable, outcome |-> InvalidMfa]
    ELSE [users |-> [userTable EXCEPT ![email].mfaSecret = secret,
                                      ![email].mfaEnabled = TRUE],
          outcome |-> MfaEnabledOk]

\* ------------------------------------------------------ signin: the system
\* One registered account under signin, confirmMfa and the administrator's
\* freezeUserAccount and unfreezeUserAccount.  The clock is sampled around
\* the ends of the 15-minute lock and of the 30-minute freeze.
MaxFailedAttempts == 6
RightPassword == "pw-right"
WrongPassword == "pw-wrong"
Passwords == {RightPassword, WrongPassword}
MfaSecret == "JBSWY3DPEHPK3PXP"

SigninInstants ==
    {b + j : b \in {0, LockSeconds, FreezeMinutes * 60}, j \in 0..Slack}

\* The codes a caller may send at time t: none, the current one, and the
\* one of three steps ago.
MfaCodes(t) ==
    {{}, {TotpCode(MfaSecret, t)}, {TotpCode(MfaSecret, t - 3 * TotpStepSeconds)}}

RegisteredAccount ==
    [phone |-> KnownPhone, status |-> PENDING_VERIFICATION, lockedUntil |-> {},
     password |-> Hash(RightPassword), failedLoginAttempts |-> 0,
     mfaEnabled |-> FALSE, mfaSecret |-> Undefined, refreshToken |-> {}]

SigninInit ==
    /\ otps = EmptyStore
    /\ nextId = 1
    /\ now = 0
    /\ res = NoCall
    /\ verifiedReturns = [i \in OtpIds |-> 0]
    /\ pc = [p \in Callers |-> "idle"]
    /\ loc = [p \in Callers |-> NoLocal]
    /\ users = [e \in {KnownEmail} |-> RegisteredAccount]
    /\ blockedIps = EmptyStore
    /\ deviceFingerprints = EmptyStore
    /\ loginAttempts = EmptyStore
    /\ fraudLog = <<>>
    /\ verdict = NoVerdict
    /\ deniedIps = {}
    /\ bruteBlocks = EmptyStore

signinFrame == <<otps, nextId, verifiedReturns, concVars, blockedIps,
                 deviceFingerprints, loginAttempts, fraudLog, verdict, histVars>>

SigninAdvance ==
    /\ \E t \in SigninInstants : t > now /\ now' = t
    /\ UNCHANGED <<res, users, signinFrame>>

Signin ==
    \E email \in Emails, password \in Passwords, mfaCode \in MfaCodes(now) :
        \E r \in {signin(users, email, password, mfaCode, now)} :
            /\ \A e \in DOMAIN r.users :
                    r.users[e].failedLoginAttempts <= MaxFailedAttempts
            /\ users' = r.users
            /\ res' = [op |-> "signin", email |-> email, password |-> password,
                       outcome |-> r.outcome, at |-> now, tokens |-> r.tokens,
                       failedLoginAttempts |->
                            IF email \in DOMAIN r.users
                            THEN r.users[email].failedLoginAttempts ELSE 0,
                       lockedUntil |->
                            IF email \in DOMAIN r.users
                            THEN r.users[email].lockedUntil ELSE {},
                       before |-> IF email \in DOMAIN users THEN {users[email]} ELSE {}]
            /\ UNCHANGED <<now, signinFrame>>

ConfirmMfa ==
    \E mfaCode \in MfaCodes(now) \ {{}} :
        \E r \in {confirmMfa(users, KnownEmail, mfaCode, MfaSecret, now)} :
            /\ users' = r.users
            /\ res' = [op |-> "confirmMfa", email |-> KnownEmail, outcome |-> r.outcome,
                       at |-> now]
            /\ UNCHANGED <<now, signinFrame>>

SigninNext ==
    \/ SigninAdvance
    \/ Signin
    \/ ConfirmMfa
    \/ FreezeUserAccount
    \/ UnfreezeUserAccount

SpecSignin == SigninInit /\ [][SigninNext]_vars

\* --------------------------------------- AuthService.refreshToken, logout
AccessTtlSeconds == 15 * 60
RefreshTtlSeconds == 7 * 24 * 60 * 60
InvalidRefreshToken == "Invalid refresh token"
Refreshed == "refreshed"
LoggedOut == "Logged out successfully"
LogoutFailed == "TypeError"

\* jwtService.verify: the signature is the service's own and the token is
\* not past its exp.
jwtVerify(token, t) ==
    t < token.iat + (IF token.kind = "refresh" THEN RefreshTtlSeconds
                     ELSE AccessTtlSeconds)

RefreshAnyValidToken(userTable, token, t) ==
    IF ~jwtVerify(token, t) \/ token.sub \notin DOMAIN userTable
    THEN Rejected(userTable, InvalidRefreshToken)
    ELSE LET issued == generateTokens(userTable[token.sub], token.sub, t)
         IN  [users |-> [userTable EXCEPT ![token.sub] = issued.user],
              outcome |-> Refreshed, tokens |-> issued.tokens]

refreshToken(userTable, token, t) ==
    IF ~jwtVerify(token, t) THEN Rejected(userTable, InvalidRefreshToken)
    ELSE IF token.sub \notin DOMAIN userTable
            \/ userTable[token.sub].refreshToken # {token}
    THEN Rejected(userTable, InvalidRefreshToken)
    ELSE \* bind the issued tokens once
         LET issued == generateTokens(userTable[token.sub], token.sub, t)
         IN  [users |-> [userTable EXCEPT ![token.sub] = issued.user],
              outcome |-> Refreshed, tokens |-> issued.tokens]

\* logout of an id with no row dereferences null and throws.
logout(userTable, userId) ==
    IF userId \notin DOMAIN userTable
    THEN [users |-> userTable, outcome |-> LogoutFailed]
    ELSE [users |-> [userTable EXCEPT ![userId].refreshToken = {}],
          outcome |-> LoggedOut]

\* ----------------------------------------------------- sessions: the system
\* The signin system with refreshToken and logout.  A caller presents any
\* token the service can have signed up to now, refresh or access.
PresentedTokens(t) ==
    {Token(KnownEmail, kind, iat) :
        kind \in {"refresh", "access"}, iat \in {i \in SigninInstants : i <= t}}

RefreshToken ==
    \E token \in PresentedTokens(now) :
        \E r \in {refreshToken(users, token, now)} :
            /\ users' = r.users
            /\ res' = [op |-> "refreshToken", token |-> token, outcome |-> r.outcome,
                       at |-> now, tokens |-> r.tokens]
            /\ UNCHANGED <<now, signinFrame>>

Logout ==
    \E userId \in Emails :
        \E r \in {logout(users, userId)} :
            /\ users' = r.users
            /\ res' = [op |-> "logout", email |-> userId, outcome |-> r.outcome,
                       at |-> now,
                       revoked |-> IF userId \in DOMAIN users
                                   THEN users[userId].refreshToken ELSE {}]
            /\ UNCHANGED <<now, signinFrame>>

SessionNext ==
    \/ SigninAdvance
    \/ Signin
    \/ ConfirmMfa
    \/ FreezeUserAccount
    \/ UnfreezeUserAccount
    \/ RefreshToken
    \/ Logout

SpecSession == SigninInit /\ [][SessionNext]_vars

\* ------------------------------------------------------- the fraud scorer
\* checkEmailFraud, checkPhoneFraud and checkIpFraud over sample inputs,
\* every answer of the lookups they consult, and fraud logs with and
\* without the rows the brute-force and multiple-accounts queries count.
EmailSamples == [local : EmailLocals, domain : EmailDomains]
PhoneSamples ==
    {<<"+", "9", "2", "3", "0", "0", "1", "2", "3", "4", "5", "6", "7">>,
     <<"1", "2", "3", "4", "5">>,
     <<"0", "0", "9", "2", "3", "0", "0", "1", "2", "3", "4", "5", "6", "7", "8", "9">>}
ScoredReputations ==
    [isVpn : BOOLEAN, isProxy : BOOLEAN, isTor : BOOLEAN, country : {"US", "IR"}]

RECURSIVE LogRows(_, _, _, _)
LogRows(flog, ipAddress, reason, n) ==
    IF n = 0 THEN flog
    ELSE LogRows(logFraudAttempt(flog, ipAddress, KnownEmail, Undefined, reason, 0),
                 ipAddress, reason, n - 1)
ScoreLogs ==
    {LogRows(LogRows(<<>>, ip, BRUTEFORCE_ATTEMPT, b), ip, MULTIPLE_ACCOUNTS_SAME_IP, m) :
        ip \in Ips, b \in {0, FraudBruteforceCount}, m \in {0, MultipleAccountsCount}}

ScoreInit ==
    /\ otps = EmptyStore
    /\ nextId = 1
    /\ now = 0
    /\ res = NoCall
    /\ verifiedReturns = [i \in OtpIds |-> 0]
    /\ pc = [p \in Callers |-> "idle"]
    /\ loc = [p \in Callers |-> NoLocal]
    /\ users \in {u \in RegisteredUsers : u[KnownEmail].phone = KnownPhone}
    /\ blockedIps = EmptyStore
    /\ deviceFingerprints = EmptyStore
    /\ loginAttempts = EmptyStore
    /\ fraudLog \in ScoreLogs
    /\ verdict = NoVerdict
    /\ deniedIps = {}
    /\ bruteBlocks = EmptyStore

scoreFrame == <<otps, nextId, now, verifiedReturns, concVars, eligVars>>

CheckEmailFraud ==
    \E email \in EmailSamples, hasMxRecord \in BOOLEAN :
        /\ res' = [op |-> "checkEmailFraud",
                   input |-> [email |-> email, hasMxRecord |-> hasMxRecord],
                   outcome |-> checkEmailFraud(email, hasMxRecord)]
        /\ UNCHANGED scoreFrame

CheckPhoneFraud ==
    \E phoneNumber \in PhoneSamples, carrierInfo \in CarrierInfos, recycled \in BOOLEAN :
        /\ res' = [op |-> "checkPhoneFraud",
                   input |-> [phoneNumber |-> phoneNumber, carrierInfo |-> carrierInfo,
                              recycled |-> recycled],
                   outcome |-> checkPhoneFraud(phoneNumber, carrierInfo, recycled)]
        /\ UNCHANGED scoreFrame

CheckIpFraud ==
    \E ipAddress \in Ips, email \in {Undefined, KnownEmail},
       ipReputation \in ScoredReputations :
        /\ res' = [op |-> "checkIpFraud",
                   input |-> [ipAddress |-> ipAddress, email |-> email,
                              ipReputation |-> ipReputation],
                   outcome |-> checkIpFraud(fraudLog, ipAddress, email, ipReputation, now)]
        /\ UNCHANGED scoreFrame

ScoreNext == CheckEmailFraud \/ CheckPhoneFraud \/ CheckIpFraud

SpecScore == ScoreInit /\ [][ScoreNext]_vars

\* ------------------------------------------------- AuthService.register
PasswordsDoNotMatch == "Passwords do not match"
IpBlockedMessage == "Your IP has been temporarily blocked. Please try again later."
LocationNotAllowed ==
    "Registration from your location is not allowed. Please contact support."
NotProcessed ==
    "Your registration request could not be processed. Please try again or contact support."
AlreadyRegistered == "Email already registered"
Registered == "Registration successful. Please verify your email."
RegisterBlockHours == 24

HighRiskNever(reasons) == FALSE

\* The detections for which register blocks the address.
highRisk(reasons) ==
    \/ \E i \in DOMAIN reasons : reasons[i] = TOR_IP
    \/ \E i \in DOMAIN reasons : reasons[i] = BLACKLISTED_IP

NewAccount(password, phone) ==
    [phone |-> phone, status |-> PENDING_VERIFICATION, lockedUntil |-> {},
     password |-> Hash(password), failedLoginAttempts |-> 0,
     mfaEnabled |-> FALSE, mfaSecret |-> Undefined, refreshToken |-> {}]

\* The end of register, after the screening of the address.
createUser(sys, dto) ==
    IF dto.email \in DOMAIN sys.users
    THEN [users |-> sys.users, blockedIps |-> sys.blockedIps,
          fraudLog |-> sys.fraudLog, outcome |-> AlreadyRegistered]
    ELSE [users |-> [e \in DOMAIN sys.users \cup {dto.email} |->
                        IF e = dto.email THEN NewAccount(dto.password, dto.phone)
                        ELSE sys.users[e]],
          blockedIps |-> sys.blockedIps, fraudLog |-> sys.fraudLog,
          outcome |-> Registered]

\* register's answer to an address that checkIpFraud flagged with result f.
rejectFraud(sys, dto, ipAddress, f, t) ==
    [users |-> sys.users,
     blockedIps |->
        IF highRisk(f.reasons)
        THEN blockIp(sys.blockedIps, ipAddress, "High-risk IP: " \o Join(f.reasons),
                     RegisterBlockHours, t)
        ELSE sys.blockedIps,
     fraudLog |-> logFraudAttempt(sys.fraudLog, ipAddress, dto.email, dto.phone,
                                  IF f.reasons = <<>> THEN BLACKLISTED_IP
                                  ELSE f.reasons[1], t),
     outcome |-> IF highRisk(f.reasons) THEN LocationNotAllowed ELSE NotProcessed]

\* register's screening of an address that is not blocked; looked is the
\* registry after the lookup.
screenIp(sys, dto, ipAddress, ipReputation, looked, t) ==
    \* bind the check's result once
    LET f == checkIpFraud(sys.fraudLog, ipAddress, dto.email, ipReputation, t)
    IN  IF f.isFraud
        THEN rejectFraud([sys EXCEPT !.blockedIps = looked], dto, ipAddress, f, t)
        ELSE createUser([sys EXCEPT !.blockedIps = looked], dto)

\* dto is {email, password, confirmPassword, phone}; ipAddress may be absent.
register(sys, dto, ipAddress, ipReputation, t) ==
    IF dto.password # dto.confirmPassword
    THEN [users |-> sys.users, blockedIps |-> sys.blockedIps,
          fraudLog |-> sys.fraudLog, outcome |-> PasswordsDoNotMatch]
    ELSE IF ipAddress = Undefined THEN createUser(sys, dto)
    ELSE IF isIpBlocked(sys.blockedIps, ipAddress, t).result
    THEN [users |-> sys.users,
          blockedIps |-> getBlockRecord(sys.blockedIps, ipAddress, t).blockedIps,
          fraudLog |-> logFraudAttempt(sys.fraudLog, ipAddress, dto.email, dto.phone,
                                       BLACKLISTED_IP, t),
          outcome |-> IpBlockedMessage]
    ELSE screenIp(sys, dto, ipAddress, ipReputation,
                  isIpBlocked(sys.blockedIps, ipAddress, t).blockedIps, t)

\* ---------------------------------------------------- register: the system
\* register from one address under the answers of the reputation lookup;
\* the clock is sampled at the end of the 24-hour block.
MaxRegistrationLogs == 3
RegisterReputations ==
    {r \in ScoredReputations :
        r.country = "US" /\ (r.isProxy => r.isVpn) /\ (r.isTor => ~r.isVpn)}
RegisterInstants == {RegisterBlockHours * SecondsPerHour + j : j \in {0, 1}}
RegisterDtos ==
    [email : {KnownEmail}, password : {RightPassword},
     confirmPassword : Passwords, phone : {KnownPhone}]

RegisterInit ==
    /\ otps = EmptyStore
    /\ nextId = 1
    /\ now = 0
    /\ res = NoCall
    /\ verifiedReturns = [i \in OtpIds |-> 0]
    /\ pc = [p \in Callers |-> "idle"]
    /\ loc = [p \in Callers |-> NoLocal]
    /\ users = EmptyStore
    /\ blockedIps = EmptyStore
    /\ deviceFingerprints = EmptyStore
    /\ loginAttempts = EmptyStore
    /\ fraudLog = <<>>
    /\ verdict = NoVerdict
    /\ deniedIps = {}
    /\ bruteBlocks = [ip \in RegistryIps |-> {}]

Register ==
    \E dto \in RegisterDtos, ipAddress \in Ips \cup {Undefined},
       ipReputation \in RegisterReputations :
        \E r \in {register(System, dto, ipAddress, ipReputation, now)} :
            /\ Len(r.fraudLog) <= MaxRegistrationLogs
            /\ users' = r.users
            /\ blockedIps' = r.blockedIps
            /\ fraudLog' = r.fraudLog
            /\ res' = [op |-> "register", email |-> dto.email, ip |-> ipAddress,
                       outcome |-> r.outcome, at |-> now]
            /\ UNCHANGED <<otps, nextId, now, verifiedReturns, concVars,
                           deviceFingerprints, loginAttempts, verdict, histVars>>

RegisterAdvance ==
    /\ \E t \in RegisterInstants : t > now /\ now' = t
    /\ UNCHANGED <<otpVars, concVars, eligVars>>

RegisterNext == RegisterAdvance \/ Register

SpecRegister == RegisterInit /\ [][RegisterNext]_vars

\* ==================================================================
\* Properties of the OTP ledger under sequential calls (SpecOtp)
\* ==================================================================
\* The (purpose, subject) an OTP row is issued for.
OtpKey(otp) == <<otp.purpose, otp.email, otp.phone, otp.userId>>

Unexpired(otp) == ~(now > otp.expiresAt)

\* A row that generateOtp invalidated: its status is Expired although its
\* expiresAt has not passed, and a later row exists for the same key.
Superseded(i) ==
    /\ otps[i].status = EXPIRED
    /\ Unexpired(otps[i])
    /\ \E j \in DOMAIN otps : j > i /\ OtpKey(otps[j]) = OtpKey(otps[i])

\* What a verifyOtp call made now would return and leave behind.
VerifyNow(otpId, code) == verifyOtp(otps, otpId, code, EMAIL_VERIFICATION, now)

C2_SupersededCodeRejected ==
    \A i \in DOMAIN otps :
        Superseded(i) =>
            LET r == VerifyNow(i, otps[i].code)
            IN  /\ r.outcome \in {OutExpired, OutMaxAttempts}
                /\ r.otps[i].status # VERIFIED

\* C3: no row is ever the subject of two verified=true returns, and once a
\* row has been verified every verifyOtp on it is rejected, whatever the code
\* and whether or not its expiresAt has passed.
C3_VerifiedAtMostOnce ==
    \A i \in OtpIds :
        /\ verifiedReturns[i] <= 1
        /\ (verifiedReturns[i] >= 1 /\ i \in DOMAIN otps)
              => \A c \in Codes : VerifyNow(i, c).outcome # OutVerified

\* C3 witness: a row was verified once, and a later verifyOtp with the correct
\* code has just been rejected on it.
C3_Witness ==
    /\ res.op = "verifyOtp"
    /\ res.id \in DOMAIN otps
    /\ verifiedReturns[res.id] = 1
    /\ res.code = otps[res.id].code
    /\ res.outcome = OutAlreadyUsed

\* C4: attempts never exceeds maxAttempts, and a verifyOtp made when
\* attempts = maxAttempts is rejected whatever the code and leaves attempts.
C4_AttemptsBounded ==
    \A i \in DOMAIN otps :
        /\ otps[i].attempts <= otps[i].maxAttempts
        /\ otps[i].attempts = otps[i].maxAttempts
              => \A c \in Codes :
                    LET r == VerifyNow(i, c)
                    IN  /\ r.outcome # OutVerified
                        /\ r.otps[i].attempts = otps[i].attempts

\* C4 witness: the correct code has just been rejected on a row whose
\* attempts are exhausted.
C4_Witness ==
    /\ res.op = "verifyOtp"
    /\ res.id \in DOMAIN otps
    /\ otps[res.id].attempts = otps[res.id].maxAttempts
    /\ res.code = otps[res.id].code
    /\ res.outcome = OutMaxAttempts

\* The third wrong-code call on a Pending, unexpired row: the row has had
\* maxAttempts - 1 mismatches and the supplied code is wrong.
ThirdWrongCall(i, c) ==
    /\ otps[i].status = PENDING
    /\ Unexpired(otps[i])
    /\ otps[i].maxAttempts = DefaultMaxAttempts
    /\ otps[i].attempts = otps[i].maxAttempts - 1
    /\ c # otps[i].code

\* C5 (the claim as stated): the row is Failed as soon as the third wrong-code
\* verifyOtp has returned.
C5_FailedAfterThirdWrong ==
    \A i \in DOMAIN otps, c \in Codes :
        ThirdWrongCall(i, c) => VerifyNow(i, c).otps[i].status = FAILED

\* C5 (amended): when the third wrong-code verifyOtp returns, the row has
\* attempts = maxAttempts and is still Pending; it becomes Failed when one
\* more verifyOtp is made on it before its expiresAt, and that call is
\* rejected with no comparison and no increment, whatever the code.
C5_FailedOnFourthCall ==
    \A i \in DOMAIN otps, c \in Codes :
        ThirdWrongCall(i, c) =>
            LET third == VerifyNow(i, c)
            IN  /\ third.outcome = OutInvalidCode
                /\ third.otps[i].status = PENDING
                /\ third.otps[i].attempts = otps[i].maxAttempts
                /\ \A c4 \in Codes :
                      LET fourth == verifyOtp(third.otps, i, c4, EMAIL_VERIFICATION, now)
                      IN  /\ fourth.outcome = OutMaxAttempts
                          /\ fourth.otps[i].status = FAILED
                          /\ fourth.otps[i].attempts = otps[i].maxAttempts

\* C5 witness: the third wrong code has just been rejected; the row is
\* exhausted, unexpired and still Pending.
C5_Witness ==
    /\ res.op = "verifyOtp"
    /\ res.outcome = OutInvalidCode
    /\ res.id \in DOMAIN otps
    /\ otps[res.id].attempts = DefaultMaxAttempts
    /\ otps[res.id].status = PENDING
    /\ Unexpired(otps[res.id])

\* C6 (the claim as stated): a row whose status is Verified or Failed keeps
\* that status in every later step.
C6_VerifiedFailedTerminal ==
    [][\A i \in DOMAIN otps :
          (otps[i].status \in {VERIFIED, FAILED} /\ i \in DOMAIN otps')
             => otps'[i].status = otps[i].status]_vars

\* C7: a row is issued with expiresAt = issue time + 60 s, and a verifyOtp
\* made after expiresAt is rejected as expired whatever the code, leaves
\* attempts unchanged, and leaves a row that was not Verified as Expired.
C7_ExpiredRejected ==
    /\ \A i \in DOMAIN otps, c \in Codes :
         now > otps[i].expiresAt =>
            LET r == VerifyNow(i, c)
            IN  /\ r.outcome = OutExpired
                /\ r.otps[i].attempts = otps[i].attempts
                /\ otps[i].status # VERIFIED => r.otps[i].status = EXPIRED
    /\ \A q \in IssueRequests, c \in IssuedCodes :
         generateOtp(otps, nextId, q.purpose, q.email, q.phone, q.userId, c,
                     now)[nextId].expiresAt = now + OtpTtlSeconds

\* C7 witness: the correct code has just been rejected as expired on a row
\* that nobody had tried before; the row is now Expired, attempts still 0.
C7_Witness ==
    /\ res.op = "verifyOtp"
    /\ res.outcome = OutExpired
    /\ res.id \in DOMAIN otps
    /\ res.code = otps[res.id].code
    /\ now > otps[res.id].expiresAt
    /\ otps[res.id].status = EXPIRED
    /\ otps[res.id].attempts = 0
    /\ verifiedReturns[res.id] = 0

\* C9: verifyOtp on an id with no row returns the not-found outcome and
\* leaves the table as it is; on an id with a row it never returns not-found;
\* and not-found is none of the other rejections.
C9_NotFoundDistinct ==
    /\ OutNotFound \notin {OutExpired, OutAlreadyUsed, OutMaxAttempts,
                            OutInvalidCode, OutVerified}
    /\ \A id \in OtpIds, c \in Codes :
         LET r == VerifyNow(id, c)
         IN  IF id \in DOMAIN otps
             THEN r.outcome # OutNotFound
             ELSE r.outcome = OutNotFound /\ r.otps = otps

\* C9 witness: verifyOtp has just answered not-found for the id of a row that
\* the cleanup deleted, while another row is in the table.
C9_Witness ==
    /\ res.op = "verifyOtp"
    /\ res.outcome = OutNotFound
    /\ res.id < nextId
    /\ res.id \notin DOMAIN otps
    /\ DOMAIN otps # {}

\* ==================================================================
\* Properties of overlapping verifyOtp calls (SpecConc)
\* ==================================================================
\* C8 (the claim as stated): two overlapping verifyOtp calls on one row never
\* both return verified=true.
C8_NoDoubleSuccess ==
    \A p, q \in Callers :
        (p # q /\ pc[p] = "done" /\ pc[q] = "done" /\ loc[p].id = loc[q].id)
           => ~(loc[p].outcome = OutVerified /\ loc[q].outcome = OutVerified)

\* ==================================================================
\* Properties of checkLoginEligibility (SpecElig)
\* ==================================================================
AllChecks(status) ==
    /\ status.emailVerified
    /\ status.phoneVerified
    /\ status.fraudCheckPassed
    /\ status.ipClean
    /\ status.sessionValid

\* C10: every VerificationStatus checkLoginEligibility returns, on the normal
\* path, the user-not-found path and the error path alike, has canLogin true
\* exactly when emailVerified, phoneVerified, fraudCheckPassed, ipClean and
\* sessionValid are all true: the status a call would return in any reachable
\* state, for any request, and the status the last call did return.
C10_CanLoginIffAllChecks ==
    /\ \A email \in Emails, ipAddress \in Ips,
          deviceFingerprint \in Fingerprints \cup {Undefined}, env \in Environments :
            \A status \in {Eligibility(email, ipAddress, deviceFingerprint, env).status} :
                status.canLogin <=> AllChecks(status)
    /\ verdict.path # "none" =>
            (verdict.status.canLogin <=> AllChecks(verdict.status))

\* A call on the normal path has returned canLogin = true.
C10_Witness ==
    /\ verdict.path = "normal"
    /\ verdict.status.canLogin
    /\ AllChecks(verdict.status)

\* Requests and surroundings of a call that reaches the checks: the account
\* is known and the users lookup answers.
KnownEmails == DOMAIN users
Answering == {env \in Environments : ~env.findFails}
DeviceArgs == Fingerprints \cup {Undefined}
Has(reasons, reason) == \E i \in DOMAIN reasons : reasons[i] = reason
AccountSuspended(email) == users[email].status = SUSPENDED
AccountFrozen(email) == \E until \in users[email].lockedUntil : now < until

\* C11: for a known account with no phone number, checkLoginEligibility
\* returns canLogin = true whenever emailVerified, fraudCheckPassed, ipClean
\* and sessionValid are all true.
C11_PhoneOptional ==
    \A email \in KnownEmails, ipAddress \in Ips, fp \in DeviceArgs, env \in Answering :
        users[email].phone = Undefined =>
            \A status \in {Eligibility(email, ipAddress, fp, env).status} :
                (/\ status.emailVerified
                 /\ status.fraudCheckPassed
                 /\ status.ipClean
                 /\ status.sessionValid) => status.canLogin

\* A failure reason that corresponds to each boolean of the verdict.
FixedReasons ==
    {ReasonNotFound, ReasonIpBlocked, ReasonEmail, ReasonPhone, ReasonBruteforce,
     ReasonDevice, ReasonSuspended, ReasonFrozen, ReasonError}
HasFraudReason(reasons) == \E i \in DOMAIN reasons : reasons[i] \notin FixedReasons

\* C12: for a known identity failureReasons is complete: each boolean field
\* that is false in the verdict has a corresponding entry in failureReasons,
\* and every verdict with canLogin = false has a non-empty failureReasons.
C12_FailureReasonsComplete ==
    \A email \in KnownEmails, ipAddress \in Ips, fp \in DeviceArgs, env \in Answering :
        \A status \in {Eligibility(email, ipAddress, fp, env).status} :
            LET reasons == status.failureReasons
            IN  /\ ~status.emailVerified => Has(reasons, ReasonEmail)
                /\ ~status.phoneVerified => Has(reasons, ReasonPhone)
                /\ ~status.fraudCheckPassed =>
                        HasFraudReason(reasons) \/ Has(reasons, ReasonBruteforce)
                /\ ~status.ipClean =>
                        \/ Has(reasons, ReasonIpBlocked)
                        \/ HasFraudReason(reasons)
                        \/ Has(reasons, ReasonBruteforce)
                /\ ~status.sessionValid =>
                        \/ Has(reasons, ReasonDevice)
                        \/ Has(reasons, ReasonSuspended)
                        \/ Has(reasons, ReasonFrozen)
                /\ ~status.canLogin => reasons # <<>>

\* C14: for a known identity whose email, phone, fraud, IP and account-state
\* checks all pass, a call that presents a never-seen fingerprint returns
\* sessionValid = false with the device reason and still canLogin = true.
C14_UnseenDeviceAdvisory ==
    \A email \in KnownEmails, ipAddress \in Ips, fp \in Fingerprints, env \in Answering :
        \A status \in {Eligibility(email, ipAddress, fp, env).status} :
            (/\ fp \notin DOMAIN deviceFingerprints
             /\ status.emailVerified
             /\ status.phoneVerified
             /\ status.fraudCheckPassed
             /\ status.ipClean
             /\ ~AccountSuspended(email)
             /\ ~AccountFrozen(email))
            => (/\ ~status.sessionValid
                /\ Has(status.failureReasons, ReasonDevice)
                /\ status.canLogin)

\* C14 as the handler behaves: under the same conditions the call returns
\* sessionValid = false with the device reason as its only failure reason, and
\* canLogin = false.
C14_UnseenDeviceRefused ==
    \A email \in KnownEmails, ipAddress \in Ips, fp \in Fingerprints, env \in Answering :
        \A status \in {Eligibility(email, ipAddress, fp, env).status} :
            (/\ fp \notin DOMAIN deviceFingerprints
             /\ status.emailVerified
             /\ status.phoneVerified
             /\ status.fraudCheckPassed
             /\ status.ipClean
             /\ ~AccountSuspended(email)
             /\ ~AccountFrozen(email))
            => (/\ ~status.sessionValid
                /\ status.failureReasons = <<ReasonDevice>>
                /\ ~status.canLogin)

\* A call presenting a fingerprint for the first time has been refused for
\* that reason alone.
C14_Witness ==
    /\ verdict.path = "normal"
    /\ verdict.status.failureReasons = <<ReasonDevice>>
    /\ verdict.status.emailVerified
    /\ verdict.status.phoneVerified
    /\ verdict.status.fraudCheckPassed
    /\ verdict.status.ipClean
    /\ ~verdict.status.canLogin
    /\ \E fp \in DOMAIN deviceFingerprints : deviceFingerprints[fp].attempts = 1

\* What the device check of a call presenting fp would do now.
DeviceCheck(email, ipAddress, fp, env) ==
    \A r \in {Eligibility(email, ipAddress, fp, env)} :
        IF fp \notin DOMAIN deviceFingerprints
        THEN /\ Has(r.status.failureReasons, ReasonDevice)
             /\ ~r.status.sessionValid
             /\ fp \in DOMAIN r.deviceFingerprints
        ELSE /\ ~Has(r.status.failureReasons, ReasonDevice)
             /\ r.status.sessionValid <=> (~AccountSuspended(email) /\ ~AccountFrozen(email))
             /\ fp \in DOMAIN r.deviceFingerprints

\* C15: the first call for a known identity that presents a fingerprint
\* treats it as untrusted and stores it; a stored fingerprint stays stored, and
\* every call that presents a stored fingerprint treats it as trusted: the
\* device check adds no failure reason and does not set sessionValid = false.
C15_TrustOnSecondSight ==
    /\ [](\A email \in KnownEmails, ipAddress \in Ips, fp \in Fingerprints,
             env \in Answering : DeviceCheck(email, ipAddress, fp, env))
    /\ [][DOMAIN deviceFingerprints \subseteq DOMAIN deviceFingerprints']_vars

\* A fingerprint has been presented twice and the later call was not refused
\* over the device.
C15_Witness ==
    /\ verdict.path = "normal"
    /\ verdict.status.sessionValid
    /\ \E fp \in DOMAIN deviceFingerprints : deviceFingerprints[fp].attempts >= 2

\* C16: for an identity unknown to the users table, checkLoginEligibility
\* returns a verdict whose six booleans are all false and whose
\* failureReasons is exactly the not-found reason, and it writes nothing: no
\* IP is blocked, no fingerprint is stored, no fraud event is logged.
C16_UnknownIdentityRefused ==
    /\ \A email \in Emails \ KnownEmails, ipAddress \in Ips, fp \in DeviceArgs,
          env \in Answering :
            \A r \in {Eligibility(email, ipAddress, fp, env)} :
                /\ r.path = "notFound"
                /\ r.status = [emailVerified |-> FALSE, phoneVerified |-> FALSE,
                               fraudCheckPassed |-> FALSE, ipClean |-> FALSE,
                               sessionValid |-> FALSE, canLogin |-> FALSE,
                               failureReasons |-> <<ReasonNotFound>>]
                /\ r.blockedIps = blockedIps
                /\ r.deviceFingerprints = deviceFingerprints
                /\ r.fraudLog = fraudLog
    /\ verdict.path = "notFound" =>
            /\ verdict.status.failureReasons = <<ReasonNotFound>>
            /\ ~verdict.status.canLogin /\ ~AllChecks(verdict.status)

\* A call for an unknown identity has returned.
C16_Witness ==
    /\ verdict.path = "notFound"
    /\ verdict.status.failureReasons = <<ReasonNotFound>>

\* ==================================================================
\* Properties of the brute-force escalation (SpecBrute)
\* ==================================================================
BruteforceNow(email, ipAddress) ==
    checkBruteforceAttempt(loginAttempts, email, ipAddress, now)
BlockedNow(ipAddress) == isIpBlocked(blockedIps, ipAddress, now).result
WithinBlockHours(b) == now <= b.at + BlockHoursBruteforce * SecondsPerHour

\* The verdict of a call whose brute-force check triggers, and the table it leaves.
BruteforceVerdict ==
    \A email \in KnownEmails, ipAddress \in Ips, fp \in DeviceArgs, env \in Answering :
        BruteforceNow(email, ipAddress) =>
            \A r \in {Eligibility(email, ipAddress, fp, env)} :
                /\ ~r.status.fraudCheckPassed
                /\ ~r.status.canLogin
                /\ isIpBlocked(r.blockedIps, ipAddress, now).result

\* C13: when the brute-force check inside checkLoginEligibility triggers for
\* (email, ip), the verdict has fraudCheckPassed = false and canLogin = false
\* and the ip is blocked when the call returns; isIpBlocked(ip) is true
\* throughout the following 24 hours unless unblockIp(ip) is called.
C13_BruteforceBlocks24h ==
    /\ BruteforceVerdict
    /\ \A ipAddress \in RegistryIps : \A b \in bruteBlocks[ipAddress] :
            WithinBlockHours(b) => BlockedNow(ipAddress)

\* C13 as the registry behaves: the same, as long as neither unblockIp(ip)
\* nor another blockIp(ip, ...) is called in those 24 hours.
C13_BruteforceBlockUntilReplaced ==
    /\ BruteforceVerdict
    /\ \A ipAddress \in RegistryIps : \A b \in bruteBlocks[ipAddress] :
            (WithinBlockHours(b) /\ ~b.reblocked) => BlockedNow(ipAddress)

\* A brute-force verdict was returned, an hour or more has passed since the
\* block it placed, and the block still stands.
C13_Witness ==
    /\ verdict.path = "normal"
    /\ Has(verdict.status.failureReasons, ReasonBruteforce)
    /\ ~verdict.status.fraudCheckPassed
    /\ \E ipAddress \in Ips : \E b \in bruteBlocks[ipAddress] :
            /\ ~b.reblocked
            /\ now >= b.at + SecondsPerHour
            /\ WithinBlockHours(b)
            /\ BlockedNow(ipAddress)

\* ==================================================================
\* Properties of the IP block registry (SpecBlock)
\* ==================================================================
\* C17: for a block created by blockIp with durationHours = 1,
\* isIpBlocked(ip) is true at every time strictly before unblockAt and false
\* at every time from unblockAt onward (now = unblockAt counts as expired).
C17_ExpiredAtUnblockAt ==
    \A ipAddress \in DOMAIN blockedIps :
        blockedIps[ipAddress].unblockAt = blockedIps[ipAddress].blockedAt + SecondsPerHour
            => (BlockedNow(ipAddress) <=> now < blockedIps[ipAddress].unblockAt)

ListedNow == {record.ipAddress : record \in getAllBlockedIps(blockedIps, now).result}

\* C18: once isIpBlocked(ip) or getBlockRecord(ip) has answered negatively,
\* and until blockIp(ip, ...) is called again, isIpBlocked(ip) answers false
\* and ip is absent from getAllBlockedIps.
C18_NeverUnexpired ==
    \A ipAddress \in deniedIps :
        /\ ~BlockedNow(ipAddress)
        /\ getBlockRecord(blockedIps, ipAddress, now).result = {}
        /\ ipAddress \notin ListedNow

\* A lookup has answered negatively for an address after time has passed,
\* while another address is still listed.
C18_Witness ==
    /\ res.op \in {"isIpBlocked", "getBlockRecord"}
    /\ res.ip \in deniedIps
    /\ now >= SecondsPerHour
    /\ ListedNow # {}

Expired(record) == now > record.unblockAt

\* C19: a lookup (isIpBlocked, getBlockRecord) of an ip whose record has
\* now > unblockAt removes the record before it returns; after
\* getAllBlockedIps the table holds no record whose unblockAt is in the past
\* and the list returned is exactly the set of records left in the table.
C19_LazyExpiry ==
    /\ \A ipAddress \in DOMAIN blockedIps :
            Expired(blockedIps[ipAddress]) =>
                /\ ipAddress \notin DOMAIN isIpBlocked(blockedIps, ipAddress, now).blockedIps
                /\ ipAddress \notin DOMAIN getBlockRecord(blockedIps, ipAddress, now).blockedIps
    /\ \A r \in {getAllBlockedIps(blockedIps, now)} :
            /\ \A ipAddress \in DOMAIN r.blockedIps :
                    ~(r.blockedIps[ipAddress].unblockAt < now)
            /\ r.result = {r.blockedIps[ipAddress] : ipAddress \in DOMAIN r.blockedIps}

\* getAllBlockedIps has swept an expired record and listed one that is left.
C19_Witness ==
    /\ res.op = "getAllBlockedIps"
    /\ res.swept > 0
    /\ res.outcome # {}

\* C20: blockIp on an ip that has a record replaces it: afterwards the table
\* holds one record for the ip, whose reason, blockedAt and unblockAt come
\* from this call only (a shorter duration gives an earlier unblockAt than
\* before), and the records of all other ips are unchanged.
C20_BlockReplaces ==
    \A ipAddress \in RegistryIps, reason \in {ManualReason, BruteforceReason},
       durationHours \in BlockDurations :
        \A after \in {blockIp(blockedIps, ipAddress, reason, durationHours, now)} :
            /\ DOMAIN after = DOMAIN blockedIps \cup {ipAddress}
            /\ after[ipAddress] =
                 [ipAddress |-> ipAddress, reason |-> reason, blockedAt |-> now,
                  unblockAt |-> now + durationHours * SecondsPerHour, isActive |-> TRUE]
            /\ \A other \in DOMAIN blockedIps \ {ipAddress} :
                    after[other] = blockedIps[other]
            /\ (/\ ipAddress \in DOMAIN blockedIps
                /\ now + durationHours * SecondsPerHour < blockedIps[ipAddress].unblockAt)
               => after[ipAddress].unblockAt < blockedIps[ipAddress].unblockAt

\* blockIp has replaced a record by one that expires earlier, with another
\* address's record in the table.
C20_Witness ==
    /\ res.op = "blockIp"
    /\ \E old \in res.replaced : res.outcome.unblockAt < old.unblockAt
    /\ blockedIps[res.ip] = res.outcome
    /\ DOMAIN blockedIps # {res.ip}

\* ==================================================================
\* Properties of the registry under any duration (SpecDuration)
\* ==================================================================
\* C21: every record that blockIp creates and stores has
\* unblockAt > blockedAt, whatever durationHours the caller passes.
C21_UnblockAfterBlocked ==
    \A ipAddress \in DOMAIN blockedIps :
        blockedIps[ipAddress].unblockAt > blockedIps[ipAddress].blockedAt

\* ==================================================================
\* Properties of the login attempt tracker (SpecTrack)
\* ==================================================================
TrackedKeys == {<<email, ipAddress>> : email \in Emails, ipAddress \in Ips}
Tracked(k) == AttemptsOf(loginAttempts, AttemptKey(k[1], k[2]))
BruteforceAnswer(k) == checkBruteforceAttempt(loginAttempts, k[1], k[2], now)

\* The failures of a list that are less than 15 minutes old now.
RecentFailures(list) ==
    Cardinality({i \in DOMAIN list :
                    ~list[i].success
                    /\ list[i].timestamp > now - BruteforceWindowSeconds})

\* The list has five records and its five most recent span less than 30
\* seconds from first to last.
Burst(list) ==
    /\ Len(list) >= BurstSize
    /\ list[Len(list)].timestamp - list[Len(list) - BurstSize + 1].timestamp
            < BurstSeconds

\* C22: checkBruteforceAttempt(email, ip) returns true whenever at least 5
\* of the key's recorded attempts are failures with timestamps within the
\* last 15 minutes, a fifth failure recorded at the current instant included.
C22_FiveRecentFailures ==
    \A k \in TrackedKeys :
        RecentFailures(Tracked(k)) >= BruteforceFailures => BruteforceAnswer(k)

\* The fifth failure inside the window has just been recorded, at the
\* current instant, in a list that is not a burst.
C22_Witness ==
    /\ res.op = "recordLoginAttempt"
    /\ ~res.success
    /\ res.at = now
    /\ \E k \in {<<res.email, res.ip>>} :
        /\ RecentFailures(Tracked(k)) = BruteforceFailures
        /\ ~Burst(Tracked(k))
        /\ BruteforceAnswer(k)

\* C23: for a key with fewer than 5 failures in the last 15 minutes,
\* checkBruteforceAttempt returns true exactly when the key has at least 5
\* recorded attempts and its 5 most recent span less than 30 seconds,
\* whatever their outcomes.
C23_BurstRule ==
    \A k \in TrackedKeys :
        RecentFailures(Tracked(k)) < BruteforceFailures
            => (BruteforceAnswer(k) <=> Burst(Tracked(k)))

\* checkBruteforceAttempt has answered true for a burst that mixes
\* successes and failures.
C23_Witness ==
    /\ res.op = "checkBruteforceAttempt"
    /\ res.outcome
    /\ \E k \in {<<res.email, res.ip>>} :
        /\ RecentFailures(Tracked(k)) < BruteforceFailures
        /\ \E i, j \in DOMAIN Tracked(k) : Tracked(k)[i].success /\ ~Tracked(k)[j].success

\* C24: when recordLoginAttempt(email, ip, success) returns, every attempt
\* stored for the key is less than 24 hours old, the attempt just recorded
\* is the last of the key's list, and the lists of all other keys are as
\* they were.
C24_RecordKeepsLastDay ==
    \A k \in TrackedKeys, success \in BOOLEAN :
        \A key \in {AttemptKey(k[1], k[2])} :
            \A after \in {recordLoginAttempt(loginAttempts, k[1], k[2], success, now)} :
                /\ \A i \in DOMAIN after[key] :
                        /\ after[key][i].timestamp > now - AttemptRetentionSeconds
                        /\ after[key][i].timestamp <= now
                /\ after[key][Len(after[key])] =
                        [ipAddress |-> k[2], email |-> k[1], timestamp |-> now,
                         success |-> success]
                /\ DOMAIN after = DOMAIN loginAttempts \cup {key}
                /\ \A other \in DOMAIN loginAttempts \ {key} :
                        after[other] = loginAttempts[other]

\* recordLoginAttempt has dropped a record of its key while another key
\* holds a record older than 24 hours.
C24_Witness ==
    /\ res.op = "recordLoginAttempt"
    /\ res.pruned > 0
    /\ res.at = now
    /\ \E k \in {<<res.email, res.ip>>} :
        Tracked(k)[Len(Tracked(k))].timestamp = now
    /\ \E other \in DOMAIN loginAttempts \ {AttemptKey(res.email, res.ip)} :
        \E i \in DOMAIN loginAttempts[other] :
            loginAttempts[other][i].timestamp <= now - AttemptRetentionSeconds

\* ==================================================================
\* Properties of signin and the account lock (SpecSignin)
\* ==================================================================
\* The account carries a lock that signin set: suspended, five or more
\* failures counted, a lockedUntil date.
LockedBySignin(e) ==
    /\ users[e].status = SUSPENDED
    /\ users[e].failedLoginAttempts >= LockThreshold
    /\ users[e].lockedUntil # {}

\* The last call was the wrong-password signin that locked the account, and
\* the lock it set is the one the account carries.
LockJustSet(e) ==
    /\ res.op = "signin"
    /\ res.email = e
    /\ res.outcome = InvalidCredentials
    /\ res.lockedUntil # {}
    /\ users[e].lockedUntil = res.lockedUntil
    /\ users[e].status = SUSPENDED

\* The code is one that TOTP verification accepts at the current time.
ValidNow(e, mfaCode) ==
    \E d \in -TotpWindow..TotpWindow :
        mfaCode = {[secret |-> users[e].mfaSecret,
                    counter |-> now \div TotpStepSeconds + d]}

\* C25: the wrong-password signin that brings an active account's
\* failedLoginAttempts to 5 locks it with lockedUntil 15 minutes later;
\* while that lock runs every signin, the correct password included, is
\* rejected, issues no token and changes nothing; and the lock is lifted
\* early by unfreezeUserAccount only.
C25_LockedAfterFiveFailures ==
    /\ [](\A e \in KnownEmails :
            /\ (/\ canAttemptLogin(users[e], now)
                /\ users[e].failedLoginAttempts = LockThreshold - 1)
                => \A mfaCode \in MfaCodes(now) :
                    \A r \in {signin(users, e, WrongPassword, mfaCode, now)} :
                        /\ r.outcome = InvalidCredentials
                        /\ r.tokens = {}
                        /\ r.users[e].failedLoginAttempts = LockThreshold
                        /\ r.users[e].lockedUntil = {now + LockSeconds}
                        /\ r.users[e].status = SUSPENDED
            /\ (LockedBySignin(e) /\ isAccountLocked(users[e], now))
                => \A password \in Passwords, mfaCode \in MfaCodes(now) :
                    \A r \in {signin(users, e, password, mfaCode, now)} :
                        /\ r.outcome = LockedOrInactive
                        /\ r.tokens = {}
                        /\ r.users = users)
    /\ [][\A e \in KnownEmails :
            (LockedBySignin(e) /\ ~LockedBySignin(e)')
                => users' = unfreezeUserAccount(users, e)]_vars

\* The fifth failure has locked the account for 15 minutes and time has
\* moved into the lock.
C25_Witness ==
    /\ LockJustSet(KnownEmail)
    /\ res.failedLoginAttempts = LockThreshold
    /\ res.lockedUntil = {res.at + LockSeconds}
    /\ now > res.at
    /\ isAccountLocked(users[KnownEmail], now)

\* C26: once an account locked by 5 failed signins has passed its
\* lockedUntil, a signin with the correct password (and a valid MFA code
\* when MFA is enabled) succeeds and issues tokens, with no administrator
\* action.
C26_SigninAfterLockout ==
    \A e \in KnownEmails :
        (/\ LockJustSet(e)
         /\ res.failedLoginAttempts = LockThreshold
         /\ \A until \in users[e].lockedUntil : now > until)
        => \A r \in {signin(users, e, RightPassword, {TotpCode(MfaSecret, now)}, now)} :
            /\ r.outcome = SignedIn
            /\ r.tokens # {}

\* C27: the failure that brings failedLoginAttempts to 5 sets a 15-minute
\* lockout, one that brings it to 6..10 a 1-hour lockout, and from 11 on the
\* account stays locked until an administrator unlocks it.
C27_LockoutEscalates ==
    (/\ res.op = "signin"
     /\ res.outcome = InvalidCredentials
     /\ res.email \in KnownEmails)
    => /\ res.failedLoginAttempts = 5 => res.lockedUntil = {res.at + LockSeconds}
       /\ res.failedLoginAttempts \in 6..10 => res.lockedUntil = {res.at + SecondsPerHour}
       /\ res.failedLoginAttempts >= 11 => res.lockedUntil # {}

\* C28: a successful signin leaves failedLoginAttempts = 0 and lockedUntil
\* null; a wrong-password signin adds one to the count and locks only when
\* the count has come to 5; any other signin changes nothing; and nothing
\* but signin changes the count.  So after a success five new failures are
\* needed for signin to lock the account.
C28_SuccessResetsFailures ==
    /\ [](\A e \in KnownEmails, password \in Passwords, mfaCode \in MfaCodes(now) :
            \A r \in {signin(users, e, password, mfaCode, now)} :
                /\ r.outcome = SignedIn
                    => /\ r.users[e].failedLoginAttempts = 0
                       /\ r.users[e].lockedUntil = {}
                /\ r.outcome = InvalidCredentials
                    => /\ r.users[e].failedLoginAttempts
                            = users[e].failedLoginAttempts + 1
                       /\ (\/ r.users[e].status # users[e].status
                           \/ r.users[e].lockedUntil # users[e].lockedUntil)
                            => r.users[e].failedLoginAttempts >= LockThreshold
                /\ r.outcome \notin {SignedIn, InvalidCredentials}
                    => r.users = users)
    /\ [][\A e \in KnownEmails :
            users'[e].failedLoginAttempts # users[e].failedLoginAttempts
                => \E password \in Passwords, mfaCode \in MfaCodes(now) :
                        users' = signin(users, e, password, mfaCode, now).users]_vars

\* A signin has succeeded on an account that had failures counted.
C28_Witness ==
    /\ res.op = "signin"
    /\ res.outcome = SignedIn
    /\ res.tokens # {}
    /\ \E b \in res.before : b.failedLoginAttempts > 0
    /\ users[res.email].failedLoginAttempts = 0
    /\ users[res.email].lockedUntil = {}

\* C29: for an account with mfaEnabled, signin issues tokens only on a
\* valid TOTP code; with the correct password and a missing or invalid code
\* it is rejected, issues no token and leaves the account (refreshToken,
\* failedLoginAttempts, lockedUntil, status) as it was.
C29_MfaGate ==
    \A e \in KnownEmails :
        users[e].mfaEnabled =>
            \A password \in Passwords, mfaCode \in MfaCodes(now) :
                \A r \in {signin(users, e, password, mfaCode, now)} :
                    /\ r.tokens # {} => ValidNow(e, mfaCode)
                    /\ (password = RightPassword /\ ~ValidNow(e, mfaCode))
                        => /\ r.outcome # SignedIn
                           /\ r.tokens = {}
                           /\ r.users = users

\* A signin with the correct password and a stale code was rejected on an
\* account that holds a refresh token and counted failures.
C29_Witness ==
    /\ res.op = "signin"
    /\ res.outcome = InvalidMfa
    /\ res.tokens = {}
    /\ res.before = {users[res.email]}
    /\ users[res.email].refreshToken # {}
    /\ users[res.email].failedLoginAttempts > 0
    /\ users[res.email].status = ACTIVE

\* ==================================================================
\* Properties of the fraud scorer (SpecScore)
\* ==================================================================
ScoreCalls == {"checkEmailFraud", "checkPhoneFraud", "checkIpFraud"}

\* C30: for every input and every combination of triggered heuristics, the
\* result of checkEmailFraud, checkPhoneFraud and checkIpFraud has
\* 0 <= fraudScore <= 100 and isFraud exactly when fraudScore >= 50.
C30_ScoreBounded ==
    res.op \in ScoreCalls =>
        /\ res.outcome.fraudScore >= 0
        /\ res.outcome.fraudScore <= 100
        /\ res.outcome.isFraud <=> res.outcome.fraudScore >= 50

\* checkIpFraud has answered for an address on which the Tor, country and
\* brute-force heuristics triggered together.
C30_Witness ==
    /\ res.op = "checkIpFraud"
    /\ Has(res.outcome.reasons, TOR_IP)
    /\ Has(res.outcome.reasons, HIGH_RISK_COUNTRY)
    /\ Has(res.outcome.reasons, BRUTEFORCE_ATTEMPT)
    /\ res.outcome.fraudScore = 100
    /\ res.outcome.isFraud

\* The weight a heuristic contributes: its points if it triggered.
Weight(triggered, points) == IF triggered THEN points ELSE 0
Count(triggered) == IF triggered THEN 1 ELSE 0
Capped(sum) == IF sum > 100 THEN 100 ELSE sum

\* C31: for each signal type fraudScore is min(100, sum of the weights of
\* the heuristics that triggered), each heuristic counted independently of
\* the others (phone: bad format 40, carrier invalid 50, VOIP 60, virtual 70,
\* recycled 35), and reasons has one entry per triggered heuristic.
C31_IndependentWeights ==
    /\ res.op = "checkEmailFraud" =>
        \A in \in {res.input} :
            /\ res.outcome.fraudScore =
                Capped(Weight(in.email.domain \in disposableEmailDomains, 40)
                       + Weight(~in.hasMxRecord, 50)
                       + Weight(hasSpamPatterns(in.email), 30))
            /\ Len(res.outcome.reasons) =
                Count(in.email.domain \in disposableEmailDomains)
                + Count(~in.hasMxRecord) + Count(hasSpamPatterns(in.email))
    /\ res.op = "checkPhoneFraud" =>
        \A in \in {res.input} :
            /\ res.outcome.fraudScore =
                Capped(Weight(~isValidPhoneFormat(in.phoneNumber), 40)
                       + Weight(~in.carrierInfo.isValid, 50)
                       + Weight(in.carrierInfo.isVoip, 60)
                       + Weight(in.carrierInfo.isVirtual, 70)
                       + Weight(in.recycled, 35))
            /\ Len(res.outcome.reasons) =
                Count(~isValidPhoneFormat(in.phoneNumber))
                + Count(~in.carrierInfo.isValid) + Count(in.carrierInfo.isVoip)
                + Count(in.carrierInfo.isVirtual) + Count(in.recycled)
    /\ res.op = "checkIpFraud" =>
        \A in \in {res.input} :
            res.outcome.fraudScore =
                Capped(Weight(in.ipReputation.isVpn, 40)
                       + Weight(in.ipReputation.isProxy, 40)
                       + Weight(in.ipReputation.isTor, 80)
                       + Weight(in.ipReputation.country \in highRiskCountries, 50)
                       + Weight(Has(res.outcome.reasons, BRUTEFORCE_ATTEMPT), 60)
                       + Weight(Has(res.outcome.reasons, MULTIPLE_ACCOUNTS_SAME_IP), 50))

C34_TrackerFeedsIpScore ==
    \A k \in TrackedKeys :
        RecentFailures(Tracked(k)) >= BruteforceFailures
            => \A f \in {checkIpFraud(fraudLog, k[2], k[1], MockReputation, now)} :
                /\ Has(f.reasons, BRUTEFORCE_ATTEMPT)
                /\ f.fraudScore >= 60
                /\ f.isFraud

\* C40: the bot-like verdict of checkBruteforceAttempt reads the stored
\* attempts only: once the 5 most recent attempts of a key span less than
\* 30 seconds the key is flagged at the current and at every later time,
\* and it stays flagged over every step that leaves the key's list as it is
\* (any step but a recordLoginAttempt or a clearLoginAttempts on the key).
C40_BurstVerdictTimeless ==
    /\ [](\A k \in TrackedKeys :
            Burst(Tracked(k))
                => \A t \in TrackInstants :
                    t >= now => checkBruteforceAttempt(loginAttempts, k[1], k[2], t))
    /\ [][\A k \in TrackedKeys :
            (Burst(Tracked(k)) /\ Tracked(k)' = Tracked(k)) => BruteforceAnswer(k)']_vars

\* A day after a burst of five attempts, with no failure left in the last
\* 15 minutes, checkBruteforceAttempt has still answered true.
C40_Witness ==
    /\ res.op = "checkBruteforceAttempt"
    /\ res.outcome
    /\ now >= AttemptRetentionSeconds
    /\ \E k \in {<<res.email, res.ip>>} :
        /\ Burst(Tracked(k))
        /\ RecentFailures(Tracked(k)) = 0
        /\ \A i \in DOMAIN Tracked(k) : Tracked(k)[i].timestamp <= 1

\* ==================================================================
\* Properties of register (SpecRegister)
\* ==================================================================
RegisterRejections == {IpBlockedMessage, LocationNotAllowed, NotProcessed}

\* C32: register called with an ipAddress saves a user only if the ip is
\* not blocked and checkIpFraud does not flag it; when the ip is blocked or
\* isFraud is true it rejects and saves no user, and when the fraud reasons
\* include Tor or blacklisted it has blocked the ip for 24 hours.
C32_RegisterScreensIp ==
    \A dto \in {d \in RegisterDtos : d.password = d.confirmPassword},
       ipAddress \in Ips, ipReputation \in RegisterReputations :
        \A r \in {register(System, dto, ipAddress, ipReputation, now)},
           blocked \in {isIpBlocked(blockedIps, ipAddress, now).result},
           f \in {checkIpFraud(fraudLog, ipAddress, dto.email, ipReputation, now)} :
            /\ (blocked \/ f.isFraud)
                => /\ r.outcome \in RegisterRejections
                   /\ r.users = users
            /\ r.users # users => (~blocked /\ ~f.isFraud)
            /\ (/\ ~blocked
                /\ f.isFraud
                /\ (Has(f.reasons, TOR_IP) \/ Has(f.reasons, BLACKLISTED_IP)))
                => /\ ipAddress \in DOMAIN r.blockedIps
                   /\ r.blockedIps[ipAddress].blockedAt = now
                   /\ r.blockedIps[ipAddress].unblockAt = now + 24 * SecondsPerHour
                   /\ isIpBlocked(r.blockedIps, ipAddress, now).result

\* register has rejected a Tor address and blocked it for 24 hours, with no
\* user saved.
C32_Witness ==
    /\ res.op = "register"
    /\ res.outcome = LocationNotAllowed
    /\ res.at = now
    /\ users = EmptyStore
    /\ res.ip \in DOMAIN blockedIps
    /\ blockedIps[res.ip].unblockAt = now + 24 * SecondsPerHour
    /\ fraudLog[Len(fraudLog)].reason = TOR_IP

\* The rows of the fraud log for an address.
FraudRows(ipAddress) == {i \in DOMAIN fraudLog : fraudLog[i].ipAddress = ipAddress}

\* C35: after at least 3 registration attempts from one ip were flagged as
\* fraud and logged, with whatever reason, checkIpFraud(ip, email) includes
\* multiple_accounts_same_ip and its 50 points.
C35_FlaggedRegistrationsCount ==
    \A ipAddress \in Ips :
        Cardinality(FraudRows(ipAddress)) >= 3
            => \A f \in {checkIpFraud(fraudLog, ipAddress, KnownEmail, MockReputation, now)} :
                /\ Has(f.reasons, MULTIPLE_ACCOUNTS_SAME_IP)
                /\ f.fraudScore >= 50

\* ==================================================================
\* Properties of the OTP ledger: overlapping calls and the purpose
\* ==================================================================
\* C36: under overlapping verifyOtp calls on one record the increment of
\* attempts and the comparison of the code are atomic: every comparison that
\* fails raises the stored attempts by one, so none is lost.
C36_NoLostIncrement ==
    [][\A p \in Callers :
        (pc[p] = "saving" /\ pc'[p] = "done" /\ loc[p].outcome = OutInvalidCode)
            => otps'[loc[p].id].attempts = otps[loc[p].id].attempts + 1]_vars

\* C38: a verifyOtp(id, code, purpose) whose purpose differs from the one
\* stored on the record does not return verified=true and does not move the
\* record to Verified, even with the right code.
C38_PurposeBound ==
    \A i \in DOMAIN otps, code \in Codes, purpose \in VerifyPurposes :
        purpose # otps[i].purpose
            => \A r \in {verifyOtp(otps, i, code, purpose, now)} :
                /\ r.outcome # OutVerified
                /\ r.otps[i].status = VERIFIED => otps[i].status = VERIFIED

\* C37: under any interleaving of two overlapping generateOtp calls for the
\* same (purpose, subject), at most one Pending row of that pair exists once
\* both calls have returned.
C37_OnePendingAfterOverlap ==
    (\A p \in Callers : pc[p] = "idle")
        => \A i, j \in DOMAIN otps :
            (i # j /\ OtpKey(otps[i]) = OtpKey(otps[j]))
                => ~(otps[i].status = PENDING /\ otps[j].status = PENDING)

\* ==================================================================
\* Properties of the refresh token (SpecSession)
\* ==================================================================
RefreshNow(token) == refreshToken(users, token, now)

\* C39: a refresh token is usable only while it is the one stored on the
\* account: logout leaves no stored token, every token is rejected while
\* none is stored and only a successful signin stores one again, and after
\* a refreshToken call that stored a different token the one it consumed is
\* rejected.
C39_RefreshOnlyWhileStored ==
    /\ [](\A token \in PresentedTokens(now) :
            RefreshNow(token).outcome = Refreshed
                => users[token.sub].refreshToken = {token})
    /\ [](\A e \in DOMAIN users :
            users[e].refreshToken = {}
                => \A token \in PresentedTokens(now) :
                    /\ RefreshNow(token).outcome = InvalidRefreshToken
                    /\ RefreshNow(token).users = users)
    /\ []((res.op = "logout" /\ res.outcome = LoggedOut /\ res.at = now)
            => users[res.email].refreshToken = {})
    /\ []((/\ res.op = "refreshToken"
           /\ res.outcome = Refreshed
           /\ users[res.token.sub].refreshToken # {res.token})
            => RefreshNow(res.token).outcome = InvalidRefreshToken)
    /\ [][\A e \in DOMAIN users :
            (users[e].refreshToken = {} /\ users'[e].refreshToken # {})
                => (res'.op = "signin" /\ res'.outcome = SignedIn)]_vars

\* refreshToken has consumed the stored token and stored a later one; the
\* consumed token is now refused.
C39_Witness ==
    /\ res.op = "refreshToken"
    /\ res.outcome = Refreshed
    /\ res.at = now
    /\ res.token.kind = "refresh"
    /\ res.token.iat < now
    /\ users[res.token.sub].refreshToken = {Token(res.token.sub, "refresh", now)}
    /\ RefreshNow(res.token).outcome = InvalidRefreshToken

\* logout has cleared a stored token, which is now refused.
C39_LogoutWitness ==
    /\ res.op = "logout"
    /\ res.at = now
    /\ res.revoked # {}
    /\ users[res.email].refreshToken = {}
    /\ \A token \in res.revoked : RefreshNow(token).outcome = InvalidRefreshToken

====
